---- MODULE Spec2Model ----
(***************************************************************************)
(* Verification model of Wind-318/baselib: the PWT instance pool           *)
(* (PWTPool in utils/encrypt.h, built on atomic_unordered_map) and the     *)
(* PWT token codec (PWTInstance, PWTHeaderBase, PWTPayloadBase,            *)
(* AlgorithmBase).                                                         *)
(***************************************************************************)
EXTENDS Integers, Sequences, FiniteSets, TLC

(***************************************************************************)
(* Bounds of the model.                                                    *)
(***************************************************************************)
NumThreads == 2
MaxPoolSize == 2
MaxIter == 1
MaxSets == 2
MaxCalls == 2

Threads == 1..NumThreads
Null == 0

VARIABLES
    client,        \* usage pattern of the calling threads: "free", "loop", "seq"
    max_size,      \* PWTPool::max_size_
    current_size,  \* PWTPool::current_size_
    available,     \* PWTPool::available_instances_ (its key set)
    used,          \* PWTPool::used_instances_ (its key set)
    created,       \* number of PWTInstance objects allocated by the pool so far
    cv_mutex,      \* owner of PWTPool::cv_mutex_, Null when free
    pc,            \* pc[t]: position of thread t inside Get / Put
    tmp,           \* tmp[t]: the local `tmp` of Get, the argument `instance` of Put
    held,          \* held[t]: instances Get returned to t that t has not put back
    iter,          \* iter[t]: number of Get calls thread t has started
    sat,           \* sat[t]: t's Get in progress was called on a saturated pool
    snap,          \* sizes seen at the start of the call in progress ("seq" client)
    alg,           \* alg[i]: the algorithm (crypto_) of instance i of the pool
    copied,        \* the algorithm PWTPool::CopyAlgorithm was last called with;
                   \* a concurrent call marks it when every instance was
                   \* available at the call
    inst,          \* inst[i]: the PWTInstance objects "enc" and "dec"
    phase,         \* "off", "setup", "encoded", "done": progress of the token run
    nsets,         \* number of setter calls made so far
    token,         \* the token returned by Encode, as it reaches the decoder
    last,          \* the last Encode / Decode / IsTokenValid call and its result
    scenario,      \* what the callers of the maps do: "api", "disjoint", "take", "multi"
    map_,          \* map_[m]: atomic_unordered_map::map_ of the maps "a" and "b"
    mutex_,        \* mutex_[m]: the writer and the readers holding m's shared_mutex
    mpc,           \* mpc[t]: position of thread t inside a call on a map
    call,          \* call[t]: the call thread t is executing
    ncalls,        \* ncalls[t]: number of calls thread t has started
    ret,           \* ret[t]: the last call thread t completed, with its result
    taken          \* taken[k]: how many pair_begin calls have returned key k

poolVars == <<client, max_size, current_size, available, used, created,
              cv_mutex, pc, tmp, held, iter, sat, snap, alg, copied>>

tokVars == <<inst, phase, nsets, token, last>>

mapVars == <<scenario, map_, mutex_, mpc, call, ncalls, ret, taken>>

vars == <<poolVars, tokVars, mapVars>>

----------------------------------------------------------------------------
(* atomic_unordered_map<Key, T>: the map_ member as a function from its     *)
(* keys to their values; every operation runs under the map's own mutex_.   *)
EmptyMap == <<>>
size(m) == Cardinality(DOMAIN m)
empty(m) == DOMAIN m = {}
contains(m, k) == k \in DOMAIN m
insert_Overwrite(m, k, v) == (k :> v) @@ m

insert(m, k, v) == IF k \in DOMAIN m THEN m ELSE (k :> v) @@ m
erase(m, k) == [x \in DOMAIN m \ {k} |-> m[x]]
keys(m) == DOMAIN m

(* pair_begin that returns the first entry but forgets map_.erase(key). *)
pair_begin_NoErase(m) ==
    IF empty(m) THEN {<<Null, m>>}
    ELSE {<<k, m>> : k \in DOMAIN m}

(* pair_begin: the possible <<returned key, map afterwards>> outcomes;      *)
(* map_.begin() of an unordered_map is an arbitrary entry, Key() is null.   *)
pair_begin(m) ==
    IF empty(m) THEN {<<Null, m>>}
    ELSE {<<k, erase(m, k)>> : k \in DOMAIN m}

----------------------------------------------------------------------------
(* The accessors a caller can observe. *)
GetCurrentSize == current_size
GetAvailableSize == size(available)
GetUsedSize == size(used)
GetMaxSize == max_size

NoCall == [op |-> "none"]

\* No thread has called a map.
MapParked ==
    /\ scenario = "none"
    /\ map_ = <<>>
    /\ mutex_ = <<>>
    /\ mpc = [t \in Threads |-> "idle"]
    /\ call = [t \in Threads |-> NoCall]
    /\ ncalls = [t \in Threads |-> 0]
    /\ ret = [t \in Threads |-> NoCall]
    /\ taken = <<>>

NoToken == [msg |-> <<>>, tampered |-> FALSE]

Sizes == [cur |-> GetCurrentSize, av |-> GetAvailableSize, us |-> GetUsedSize]
NoSnap == [op |-> "none", cur |-> 0, av |-> 0, us |-> 0]

(* Threads blocked inside cv_.wait. *)
waiters == {t \in Threads : pc[t] = "get_waiting"}

AllIdle == \A t \in Threads : pc[t] = "idle"

OthersIdle(t) == \A u \in Threads \ {t} : pc[u] = "idle"

(* The thread that calls PWTPool::CopyAlgorithm while the others call Get   *)
(* and Put.                                                                 *)
Copier == NumThreads + 1

(* std::shared_mutex leaves open whether a shared lock is granted while a   *)
(* unique lock is waited for: glibc's pthread_rwlock grants it, a           *)
(* writer-preferring implementation makes it wait. A waiting CopyAlgorithm  *)
(* is in one of two positions accordingly.                                  *)
CopyWaits == {"copy_lock", "copy_lock_first"}

(* std::shared_lock lock(mutex_) of the pool is granted. *)
PoolLockShared ==
    client = "concurrent" => pc[Copier] \notin {"copy_range", "copy_lock_first"}

(* What the calling code allows a thread to start. *)
MayStart(t) == client = "seq" => OthersIdle(t)
SnapAt(op) == IF client = "seq" THEN [op |-> op] @@ Sizes ELSE snap

(***************************************************************************)
(* Tokens: PWTHeader, PWTPayload, Algorithm and PWTInstance.              *)
(*                                                                         *)
(* A byte string is the empty tuple when it has no bytes and a one-element *)
(* tuple holding the serialized message otherwise; an optional is the      *)
(* empty tuple when it has no value and a one-element tuple otherwise.     *)
(***************************************************************************)
Ids == {"enc", "dec"}

nullopt == <<>>

make_optional(v) == <<v>>

has_value(o) == o # <<>>

value(o) == o[1]

\* proto3 serialization: a message whose fields all have their default
\* value serializes to zero bytes.
SerializeAsString(m, dflt) == IF m = dflt THEN <<>> ELSE <<m>>

\* ParseFromString: [ok, msg]; zero bytes parse to the default message.
ParseFromString(b, dflt) ==
    IF b = <<>> THEN [ok |-> TRUE, msg |-> dflt]
    ELSE IF "garbage" \in DOMAIN b[1] THEN [ok |-> FALSE, msg |-> dflt]
    ELSE [ok |-> TRUE, msg |-> b[1]]

DefaultTimestamp == [seconds |-> 0, nanos |-> 0]

DefaultAny == [type_url |-> "", value |-> ""]

DefaultInstanceMessage == [head |-> <<>>, custom |-> <<>>]

DefaultHeaderMessage ==
    [typ |-> "", kid |-> "", pwk |-> "", x5u |-> "", custom |-> {}]

DefaultPayloadMessage ==
    [iss |-> "", sub |-> "", pbi |-> "", aud |-> "", aud_vec |-> <<>>,
     custom |-> {}, exp |-> nullopt, nbf |-> nullopt, iat |-> nullopt]

DefaultPWTMessage == [header |-> <<>>, payload |-> <<>>, signature |-> <<>>]

\* The clock reading; the run is short enough that it does not advance.
Now == [seconds |-> 1000, nanos |-> 7]

GetTimestamp(seconds) ==
    [seconds |-> Now.seconds + seconds, nanos |-> Now.nanos]

\* The repeated (key, value) field built from a custom-field map.
CustomOf(m) == {<<k, m[k]>> : k \in keys(m)}

RECURSIVE InsertAll(_, _)
\* custom_fields_.insert(field.key(), field.value()) for every field
InsertAll(m, fields) ==
    IF fields = {} THEN m
    ELSE LET f == CHOOSE f \in fields : TRUE
         IN InsertAll(insert(m, f[1], f[2]), fields \ {f})

\* A key is its first 32 bytes (head) followed by the remaining ones (tail).
Key1 == [head |-> "h1", tail |-> "t1"]

Key1b == [head |-> "h1", tail |-> "t2"]

Key2 == [head |-> "h2", tail |-> "t1"]

Keys == {Key1, Key1b, Key2}

key_empty(k) == k.head = "" /\ k.tail = ""

\* AES-256-CBC under the first 32 bytes of key_ and no IV: the ciphertext
\* is a function of those 32 bytes and the data.
Encrypt(crypto, data) ==
    IF key_empty(crypto.key) \/ data = <<>>
    THEN [threw |-> TRUE, out |-> <<>>]
    ELSE [threw |-> FALSE, out |-> <<[k |-> crypto.key.head, d |-> data]>>]

Algorithm(key, iv, salt) == [key |-> key, iv |-> iv, salt |-> salt]

Clone(crypto) == crypto

PWTHeader ==
    [typ |-> "PWT", kid |-> "", pwk |-> "", x5u |-> "",
     custom_fields |-> EmptyMap, custom_header |-> nullopt]

PWTPayload(pbi) ==
    [iss |-> "", sub |-> "", pbi |-> pbi,
     aud |-> [str |-> ""],
     nbf |-> make_optional(GetTimestamp(0)),
     iat |-> make_optional(GetTimestamp(0)),
     exp |-> make_optional(GetTimestamp(3600)),
     custom_fields |-> EmptyMap, custom_payload |-> nullopt]

InitConstructor_IatOnly(pbi, iss, sub, aud, exp, nbf, iat, custom_payload) ==
    LET p == [iss |-> iss, sub |-> sub, pbi |-> pbi, aud |-> aud,
              nbf |-> make_optional(GetTimestamp(nbf)),
              iat |-> make_optional(GetTimestamp(iat)),
              exp |-> make_optional(GetTimestamp(exp)),
              custom_fields |-> EmptyMap, custom_payload |-> custom_payload]
    IN IF exp < iat
       THEN [p EXCEPT !.exp = nullopt, !.nbf = nullopt, !.iat = nullopt]
       ELSE p

InitConstructor(pbi, iss, sub, aud, exp, nbf, iat, custom_payload) ==
    LET p == [iss |-> iss, sub |-> sub, pbi |-> pbi, aud |-> aud,
              nbf |-> make_optional(GetTimestamp(nbf)),
              iat |-> make_optional(GetTimestamp(iat)),
              exp |-> make_optional(GetTimestamp(exp)),
              custom_fields |-> EmptyMap, custom_payload |-> custom_payload]
    IN IF exp < iat \/ nbf > exp
       THEN [p EXCEPT !.exp = nullopt, !.nbf = nullopt, !.iat = nullopt]
       ELSE p

\* PWTHeaderBase::Encode
PWTHeaderBase_Encode(h) ==
    LET header == [typ |-> h.typ, kid |-> h.kid, pwk |-> h.pwk,
                   x5u |-> h.x5u, custom |-> CustomOf(h.custom_fields)]
        ist_msg == [head |-> SerializeAsString(header, DefaultHeaderMessage),
                    custom |-> IF has_value(h.custom_header)
                               THEN SerializeAsString(value(h.custom_header),
                                                      DefaultAny)
                               ELSE <<>>]
    IN SerializeAsString(ist_msg, DefaultInstanceMessage)

\* PWTHeaderBase::Decode: [ret, self]
PWTHeaderBase_Decode(h, msg) ==
    LET ist == ParseFromString(msg, DefaultInstanceMessage)
        hdr == ParseFromString(ist.msg.head, DefaultHeaderMessage)
        any == ParseFromString(ist.msg.custom, DefaultAny)
        h1 == [h EXCEPT !.typ = hdr.msg.typ, !.kid = hdr.msg.kid,
                        !.pwk = hdr.msg.pwk, !.x5u = hdr.msg.x5u,
                        !.custom_fields = InsertAll(@, hdr.msg.custom)]
    IN IF msg = <<>> THEN [ret |-> FALSE, self |-> h]
       ELSE IF ~ist.ok THEN [ret |-> FALSE, self |-> h]
       ELSE IF ~hdr.ok THEN [ret |-> FALSE, self |-> h]
       ELSE IF ist.msg.custom = <<>>
            THEN [ret |-> TRUE, self |-> [h1 EXCEPT !.custom_header = nullopt]]
       ELSE [ret |-> any.ok,
             self |-> [h1 EXCEPT !.custom_header = make_optional(any.msg)]]

\* PWTPayloadBase::Encode
PWTPayloadBase_Encode(p) ==
    LET payload_msg ==
            [iss |-> p.iss, sub |-> p.sub, pbi |-> p.pbi,
             aud |-> IF "str" \in DOMAIN p.aud THEN p.aud.str ELSE "",
             aud_vec |-> IF "str" \in DOMAIN p.aud THEN <<>> ELSE p.aud.vec,
             custom |-> CustomOf(p.custom_fields),
             exp |-> p.exp, nbf |-> p.nbf, iat |-> p.iat]
        ist_msg == [head |-> SerializeAsString(payload_msg,
                                               DefaultPayloadMessage),
                    custom |-> IF has_value(p.custom_payload)
                               THEN SerializeAsString(value(p.custom_payload),
                                                      DefaultAny)
                               ELSE <<>>]
    IN SerializeAsString(ist_msg, DefaultInstanceMessage)

\* The accessor of a message-typed field: the default when it is absent.
TimestampField(f) == IF has_value(f) THEN value(f) ELSE DefaultTimestamp

PWTPayloadBase_Decode_Scalar(p, msg) ==
    LET ist == ParseFromString(msg, DefaultInstanceMessage)
        pm == ParseFromString(ist.msg.head, DefaultPayloadMessage)
        any == ParseFromString(ist.msg.custom, DefaultAny)
        p1 == [p EXCEPT
                 !.iss = pm.msg.iss, !.sub = pm.msg.sub, !.pbi = pm.msg.pbi,
                 !.custom_fields = InsertAll(@, pm.msg.custom),
                 !.aud = [str |-> pm.msg.aud],
                 !.exp = make_optional(TimestampField(pm.msg.exp)),
                 !.nbf = make_optional(TimestampField(pm.msg.nbf)),
                 !.iat = make_optional(TimestampField(pm.msg.iat))]
    IN IF msg = <<>> THEN [ret |-> FALSE, self |-> p]
       ELSE IF ~ist.ok THEN [ret |-> FALSE, self |-> p]
       ELSE IF ~pm.ok THEN [ret |-> FALSE, self |-> p]
       ELSE IF ist.msg.custom = <<>>
            THEN [ret |-> TRUE, self |-> [p1 EXCEPT !.custom_payload = nullopt]]
       ELSE [ret |-> any.ok,
             self |-> [p1 EXCEPT !.custom_payload = make_optional(any.msg)]]

\* PWTPayloadBase::Decode: [ret, self]
PWTPayloadBase_Decode(p, msg) ==
    LET ist == ParseFromString(msg, DefaultInstanceMessage)
        pm == ParseFromString(ist.msg.head, DefaultPayloadMessage)
        any == ParseFromString(ist.msg.custom, DefaultAny)
        p1 == [p EXCEPT
                 !.iss = pm.msg.iss, !.sub = pm.msg.sub, !.pbi = pm.msg.pbi,
                 !.custom_fields = InsertAll(@, pm.msg.custom),
                 !.aud = IF Len(pm.msg.aud_vec) > 0
                         THEN [vec |-> pm.msg.aud_vec]
                         ELSE [str |-> pm.msg.aud],
                 !.exp = make_optional(TimestampField(pm.msg.exp)),
                 !.nbf = make_optional(TimestampField(pm.msg.nbf)),
                 !.iat = make_optional(TimestampField(pm.msg.iat))]
    IN IF msg = <<>> THEN [ret |-> FALSE, self |-> p]
       ELSE IF ~ist.ok THEN [ret |-> FALSE, self |-> p]
       ELSE IF ~pm.ok THEN [ret |-> FALSE, self |-> p]
       ELSE IF ist.msg.custom = <<>>
            THEN [ret |-> TRUE, self |-> [p1 EXCEPT !.custom_payload = nullopt]]
       ELSE [ret |-> any.ok,
             self |-> [p1 EXCEPT !.custom_payload = make_optional(any.msg)]]

\* PWTInstance::Sign: Encrypt's [threw, out]; throws on an empty string.
Sign(self, s) ==
    IF s = <<>> THEN [threw |-> TRUE, out |-> <<>>]
    ELSE Encrypt(self.crypto, s)

\* PWTInstance::IsTokenValid
PWTInstance_IsTokenValid(self, s) ==
    LET pwt == ParseFromString(s, DefaultPWTMessage)
        sg == Sign(self, pwt.msg.header \o pwt.msg.payload)
    IN IF s = <<>> \/ ~pwt.ok THEN FALSE
       ELSE IF sg.threw THEN FALSE
       ELSE pwt.msg.signature = sg.out

\* PWTInstance::Encode: [threw, out]
PWTInstance_Encode(self) ==
    LET header_str == PWTHeaderBase_Encode(self.header)
        payload_str == PWTPayloadBase_Encode(self.payload)
        sg == Sign(self, header_str \o payload_str)
    IN IF sg.threw THEN [threw |-> TRUE, out |-> <<>>]
       ELSE [threw |-> FALSE,
             out |-> SerializeAsString([header |-> header_str,
                                        payload |-> payload_str,
                                        signature |-> sg.out],
                                       DefaultPWTMessage)]

\* Decode without the comparison of the signature.
PWTInstance_Decode_NoSignature(self, msg) ==
    LET pwt == ParseFromString(msg, DefaultPWTMessage)
        hd == PWTHeaderBase_Decode(self.header, pwt.msg.header)
        pd == PWTPayloadBase_Decode(self.payload, pwt.msg.payload)
    IN IF msg = <<>> \/ ~pwt.ok THEN [ret |-> FALSE, self |-> self]
       ELSE IF ~hd.ret
            THEN [ret |-> FALSE, self |-> [self EXCEPT !.header = hd.self]]
       ELSE [ret |-> pd.ret,
             self |-> [self EXCEPT !.header = hd.self, !.payload = pd.self]]

\* PWTInstance::Decode: [ret, self]; && evaluates left to right and stops
\* at the first false operand.
PWTInstance_Decode(self, msg) ==
    LET pwt == ParseFromString(msg, DefaultPWTMessage)
        sg == Sign(self, pwt.msg.header \o pwt.msg.payload)
        hd == PWTHeaderBase_Decode(self.header, pwt.msg.header)
        pd == PWTPayloadBase_Decode(self.payload, pwt.msg.payload)
    IN IF msg = <<>> \/ ~pwt.ok THEN [ret |-> FALSE, self |-> self]
       ELSE IF sg.threw THEN [ret |-> FALSE, self |-> self]
       ELSE IF pwt.msg.signature # sg.out THEN [ret |-> FALSE, self |-> self]
       ELSE IF ~hd.ret
            THEN [ret |-> FALSE, self |-> [self EXCEPT !.header = hd.self]]
       ELSE [ret |-> pd.ret,
             self |-> [self EXCEPT !.header = hd.self, !.payload = pd.self]]

\* PWTInstance(header, payload, crypto) with the default header
PWTInstance(payload, crypto) ==
    [header |-> PWTHeader, payload |-> payload, crypto |-> crypto]

\* A std::unique_ptr that holds nothing
nullptr == [nullptr |-> TRUE]

\* header_, payload_ or crypto_ of self holds nothing
Unset(self) ==
    self.header = nullptr \/ self.payload = nullptr \/ self.crypto = nullptr

\* PWTInstance::MoveConstructor: the parts that other holds are moved to
\* this, which leaves them empty in other.
MoveConstructor(this, other) ==
    [this |-> [p \in {"header", "payload", "crypto"} |->
                 IF other[p] = nullptr THEN this[p] ELSE other[p]],
     other |-> [p \in {"header", "payload", "crypto"} |-> nullptr]]

\* An instance before anything is moved into it
MovedInto == [header |-> nullptr, payload |-> nullptr, crypto |-> nullptr]

\* What header_->Encode() can do when header_ holds nothing: the behaviour
\* is undefined; the process is killed or the call returns some bytes.
NullDereference == {"crash", "garbage"}

----------------------------------------------------------------------------
(* The instances of the pool.                                              *)

\* PWTPool::template_instance_, default-constructed: its algorithm
TemplateAlgorithm == Algorithm(Key1, "iv1", "salt1")

\* The algorithm of an instance constructed outside the pool
OtherAlgorithm == Algorithm(Key2, "iv2", "salt2")

\* PWTInstance(PWTInstance& other): header, payload and crypto are clones
\* of the other's, the payload clone with a pbi of its own.
CopyConstructor(other, pbi) ==
    [header |-> other.header,
     payload |-> [other.payload EXCEPT !.pbi = pbi],
     crypto |-> Clone(other.crypto)]

\* Instance i of the pool, as make_shared<PWTInstanceType>(template_instance_)
\* made it and PWTPool::CopyAlgorithm left it
PoolInstance(i) ==
    [CopyConstructor(PWTInstance(PWTPayload("pbi0"), TemplateAlgorithm),
                     "pbi" \o ToString(i))
        EXCEPT !.crypto = alg[i]]

----------------------------------------------------------------------------
(* A constructor that fills the pool up to max_size instead of max_size / 2. *)
PoolInit_Full(M) ==
    /\ max_size = M
    /\ current_size = M
    /\ available = [i \in 1..M |-> TRUE]
    /\ used = EmptyMap
    /\ created = M
    /\ alg = [i \in 1..M |-> Clone(TemplateAlgorithm)]

(* PWTPool constructor. *)
PoolInit(M) ==
    /\ max_size = M
    /\ current_size = M \div 2
    /\ available = [i \in 1..(M \div 2) |-> TRUE]
    /\ used = EmptyMap
    /\ created = M \div 2
    /\ alg = [i \in 1..(M \div 2) |-> Clone(TemplateAlgorithm)]

Init ==
    /\ client \in {"free", "loop", "seq"}
    /\ \E M \in 1..MaxPoolSize : PoolInit(M)
    /\ cv_mutex = Null
    /\ pc = [t \in Threads |-> "idle"]
    /\ tmp = [t \in Threads |-> Null]
    /\ held = [t \in Threads |-> {}]
    /\ iter = [t \in Threads |-> 0]
    /\ sat = [t \in Threads |-> FALSE]
    /\ snap = NoSnap
    /\ copied = <<>>
    /\ MapParked
    /\ inst = <<>>
    /\ phase = "off"
    /\ nsets = 0
    /\ token = NoToken
    /\ last = NoCall

----------------------------------------------------------------------------
(* PWTPool::Get *)

(* Get whose entry does not lock mutex_. *)
GetStart_NoLock(t) ==
    /\ pc[t] = "idle"
    /\ iter[t] < MaxIter
    /\ MayStart(t)
    /\ client \in {"loop", "concurrent"} => held[t] = {}
    /\ pc' = [pc EXCEPT ![t] = "get_empty"]
    /\ iter' = [iter EXCEPT ![t] = @ + 1]
    /\ sat' = [sat EXCEPT ![t] = current_size = max_size /\ empty(available)]
    /\ snap' = SnapAt("get")
    /\ UNCHANGED <<tokVars, mapVars, alg, copied>>
    /\ UNCHANGED <<client, max_size, current_size, available, used, created,
                   cv_mutex, tmp, held>>

(* Entry: std::shared_lock lock(mutex_). *)
GetStart(t) ==
    /\ pc[t] = "idle"
    /\ iter[t] < MaxIter
    /\ MayStart(t)
    /\ PoolLockShared
    /\ client \in {"loop", "concurrent"} => held[t] = {}
    /\ pc' = [pc EXCEPT ![t] = "get_empty"]
    /\ iter' = [iter EXCEPT ![t] = @ + 1]
    /\ sat' = [sat EXCEPT ![t] = current_size = max_size /\ empty(available)]
    /\ snap' = SnapAt("get")
    /\ UNCHANGED <<tokVars, mapVars, alg, copied>>
    /\ UNCHANGED <<client, max_size, current_size, available, used, created,
                   cv_mutex, tmp, held>>

(* if (available_instances_.empty()) *)
GetCheckEmpty(t) ==
    /\ pc[t] = "get_empty"
    /\ pc' = [pc EXCEPT ![t] = IF empty(available) THEN "get_fetch_add"
                                ELSE "get_take"]
    /\ UNCHANGED <<tokVars, mapVars, alg, copied>>
    /\ UNCHANGED <<client, max_size, current_size, available, used, created,
                   cv_mutex, tmp, held, iter, sat, snap>>

(* if (current_size_.fetch_add(1) < max_size_.load()) *)
GetFetchAdd(t) ==
    /\ pc[t] = "get_fetch_add"
    /\ current_size' = current_size + 1
    /\ pc' = [pc EXCEPT ![t] = IF current_size < max_size THEN "get_create"
                                ELSE "get_fetch_sub"]
    /\ UNCHANGED <<tokVars, mapVars, alg, copied>>
    /\ UNCHANGED <<client, max_size, available, used, created,
                   cv_mutex, tmp, held, iter, sat, snap>>

(* A Get that constructs the new instance afresh, not from the template. *)
GetCreate_FreshAlgorithm(t) ==
    /\ pc[t] = "get_create"
    /\ created' = created + 1
    /\ used' = insert(used, created + 1, TRUE)
    /\ held' = [held EXCEPT ![t] = @ \cup {created + 1}]
    /\ pc' = [pc EXCEPT ![t] = "idle"]
    /\ sat' = [sat EXCEPT ![t] = FALSE]
    /\ alg' = (created + 1 :> OtherAlgorithm) @@ alg
    /\ UNCHANGED <<tokVars, mapVars, copied>>
    /\ UNCHANGED <<client, max_size, current_size, available,
                   cv_mutex, tmp, iter, snap>>

(* make_shared<PWTInstanceType>(template_instance_); used_instances_.insert; return *)
GetCreate(t) ==
    /\ pc[t] = "get_create"
    /\ created' = created + 1
    /\ used' = insert(used, created + 1, TRUE)
    /\ held' = [held EXCEPT ![t] = @ \cup {created + 1}]
    /\ pc' = [pc EXCEPT ![t] = "idle"]
    /\ sat' = [sat EXCEPT ![t] = FALSE]
    /\ alg' = (created + 1 :> Clone(TemplateAlgorithm)) @@ alg
    /\ UNCHANGED <<tokVars, mapVars, copied>>
    /\ UNCHANGED <<client, max_size, current_size, available,
                   cv_mutex, tmp, iter, snap>>

(* A Get that forgets to take its increment back when the pool is full. *)
GetFetchSub_NoRollback(t) ==
    /\ pc[t] = "get_fetch_sub"
    /\ pc' = [pc EXCEPT ![t] = "get_take"]
    /\ UNCHANGED <<tokVars, mapVars, alg, copied>>
    /\ UNCHANGED <<client, max_size, current_size, available, used, created,
                   cv_mutex, tmp, held, iter, sat, snap>>

(* current_size_.fetch_sub(1) *)
GetFetchSub(t) ==
    /\ pc[t] = "get_fetch_sub"
    /\ current_size' = current_size - 1
    /\ pc' = [pc EXCEPT ![t] = "get_take"]
    /\ UNCHANGED <<tokVars, mapVars, alg, copied>>
    /\ UNCHANGED <<client, max_size, available, used, created,
                   cv_mutex, tmp, held, iter, sat, snap>>

(* tmp = available_instances_.pair_begin().first; while (!tmp) ... *)
GetTake(t) ==
    /\ pc[t] = "get_take"
    /\ \E r \in pair_begin(available) :
         /\ tmp' = [tmp EXCEPT ![t] = r[1]]
         /\ available' = r[2]
         /\ pc' = [pc EXCEPT ![t] = IF r[1] = Null THEN "get_lock_cv"
                                     ELSE "get_record"]
    /\ UNCHANGED <<tokVars, mapVars, alg, copied>>
    /\ UNCHANGED <<client, max_size, current_size, used, created,
                   cv_mutex, held, iter, sat, snap>>

(* std::unique_lock lock_cv(cv_mutex_) *)
GetLockCv(t) ==
    /\ pc[t] = "get_lock_cv"
    /\ cv_mutex = Null
    /\ cv_mutex' = t
    /\ pc' = [pc EXCEPT ![t] = "get_pred"]
    /\ UNCHANGED <<tokVars, mapVars, alg, copied>>
    /\ UNCHANGED <<client, max_size, current_size, available, used, created,
                   tmp, held, iter, sat, snap>>

(* cv_.wait(lock_cv, pred): the predicate !available_instances_.empty(),     *)
(* evaluated while holding cv_mutex_.                                        *)
GetPred(t) ==
    /\ pc[t] = "get_pred"
    /\ pc' = [pc EXCEPT ![t] = IF ~empty(available) THEN "get_unlock_cv"
                                ELSE "get_block"]
    /\ UNCHANGED <<tokVars, mapVars, alg, copied>>
    /\ UNCHANGED <<client, max_size, current_size, available, used, created,
                   cv_mutex, tmp, held, iter, sat, snap>>

(* cv_.wait: the predicate was false; release cv_mutex_ and block. *)
GetBlock(t) ==
    /\ pc[t] = "get_block"
    /\ cv_mutex' = Null
    /\ pc' = [pc EXCEPT ![t] = "get_waiting"]
    /\ UNCHANGED <<tokVars, mapVars, alg, copied>>
    /\ UNCHANGED <<client, max_size, current_size, available, used, created,
                   tmp, held, iter, sat, snap>>

(* cv_.wait: woken up; re-acquire cv_mutex_ and evaluate the predicate again. *)
GetReacquire(t) ==
    /\ pc[t] = "get_woken"
    /\ cv_mutex = Null
    /\ cv_mutex' = t
    /\ pc' = [pc EXCEPT ![t] = "get_pred"]
    /\ UNCHANGED <<tokVars, mapVars, alg, copied>>
    /\ UNCHANGED <<client, max_size, current_size, available, used, created,
                   tmp, held, iter, sat, snap>>

(* lock_cv.unlock(); then pair_begin again *)
GetUnlockCv(t) ==
    /\ pc[t] = "get_unlock_cv"
    /\ cv_mutex' = Null
    /\ pc' = [pc EXCEPT ![t] = "get_take"]
    /\ UNCHANGED <<tokVars, mapVars, alg, copied>>
    /\ UNCHANGED <<client, max_size, current_size, available, used, created,
                   tmp, held, iter, sat, snap>>

(* used_instances_.insert(tmp, true); return tmp *)
GetRecord(t) ==
    /\ pc[t] = "get_record"
    /\ used' = insert(used, tmp[t], TRUE)
    /\ held' = [held EXCEPT ![t] = @ \cup {tmp[t]}]
    /\ tmp' = [tmp EXCEPT ![t] = Null]
    /\ pc' = [pc EXCEPT ![t] = "idle"]
    /\ sat' = [sat EXCEPT ![t] = FALSE]
    /\ UNCHANGED <<tokVars, mapVars, alg, copied>>
    /\ UNCHANGED <<client, max_size, current_size, available, created,
                   cv_mutex, iter, snap>>

(* A condition variable may wake a waiter without any notification. *)
SpuriousWakeup(t) ==
    /\ pc[t] = "get_waiting"
    /\ pc' = [pc EXCEPT ![t] = "get_woken"]
    /\ UNCHANGED <<tokVars, mapVars, alg, copied>>
    /\ UNCHANGED <<client, max_size, current_size, available, used, created,
                   cv_mutex, tmp, held, iter, sat, snap>>

----------------------------------------------------------------------------
(* PWTPool::Put *)

(* A handle that no Get of this pool has returned. *)
Foreign == MaxPoolSize + 1

(* The handles a caller may pass to Put besides the ones it holds: a null   *)
(* handle, a handle of another pool and, for the sequential caller, a       *)
(* handle it has already put back. Among the free threads, which are        *)
(* interchangeable, it is thread 1 that passes a handle of another pool.    *)
StaleHandles(t) ==
    IF client \in {"loop", "concurrent"}
       \/ (client = "free" /\ t # 1) THEN {}
    ELSE IF client = "free" THEN {Foreign}
    ELSE {Null, Foreign}
         \cup (IF iter[t] > 0 THEN DOMAIN available ELSE {})

(* What the sequential caller sees when it calls Put(x). *)
PutSnap(x) ==
    [op |-> IF x # Null /\ contains(used, x) THEN "put" ELSE "put_noop",
     arg |-> x, avm |-> available, usm |-> used] @@ Sizes

(* Entry: Put(x) with a handle the caller got, or a stale one;              *)
(* std::shared_lock lock(mutex_). *)
PutStart(t, x) ==
    /\ pc[t] = "idle"
    /\ x \in held[t] \cup StaleHandles(t)
    /\ MayStart(t)
    /\ PoolLockShared
    /\ held' = [held EXCEPT ![t] = @ \ {x}]
    /\ tmp' = [tmp EXCEPT ![t] = x]
    /\ pc' = [pc EXCEPT ![t] = "put_check"]
    /\ snap' = IF client = "seq" THEN PutSnap(x) ELSE snap
    /\ UNCHANGED <<tokVars, mapVars, alg, copied>>
    /\ UNCHANGED <<client, max_size, current_size, available, used, created,
                   cv_mutex, iter, sat>>

(* Put without the test of the handle. *)
PutCheck_NoCheck(t) ==
    /\ pc[t] = "put_check"
    /\ pc' = [pc EXCEPT ![t] = "put_erase"]
    /\ UNCHANGED <<tokVars, mapVars, alg, copied>>
    /\ UNCHANGED <<client, max_size, current_size, available, used, created,
                   cv_mutex, tmp, held, iter, sat, snap>>

(* if (!instance || !used_instances_.contains(instance)) return *this; *)
PutCheck(t) ==
    /\ pc[t] = "put_check"
    /\ IF tmp[t] = Null \/ ~contains(used, tmp[t])
       THEN /\ pc' = [pc EXCEPT ![t] = "idle"]
            /\ tmp' = [tmp EXCEPT ![t] = Null]
       ELSE /\ pc' = [pc EXCEPT ![t] = "put_erase"]
            /\ tmp' = tmp
    /\ UNCHANGED <<tokVars, mapVars, alg, copied>>
    /\ UNCHANGED <<client, max_size, current_size, available, used, created,
                   cv_mutex, held, iter, sat, snap>>

(* used_instances_.erase(instance) *)
PutErase(t) ==
    /\ pc[t] = "put_erase"
    /\ used' = erase(used, tmp[t])
    /\ pc' = [pc EXCEPT ![t] = "put_insert"]
    /\ UNCHANGED <<tokVars, mapVars, alg, copied>>
    /\ UNCHANGED <<client, max_size, current_size, available, created,
                   cv_mutex, tmp, held, iter, sat, snap>>

(* available_instances_.insert(instance, true) *)
PutInsert(t) ==
    /\ pc[t] = "put_insert"
    /\ available' = insert(available, tmp[t], TRUE)
    /\ pc' = [pc EXCEPT ![t] = "put_notify"]
    /\ UNCHANGED <<tokVars, mapVars, alg, copied>>
    /\ UNCHANGED <<client, max_size, current_size, used, created,
                   cv_mutex, tmp, held, iter, sat, snap>>

(* cv_.notify_one(); return *this; -- wakes one blocked waiter, if there is one *)
PutNotify(t) ==
    /\ pc[t] = "put_notify"
    /\ IF waiters = {}
       THEN pc' = [pc EXCEPT ![t] = "idle"]
       ELSE \E w \in waiters :
              pc' = [pc EXCEPT ![t] = "idle", ![w] = "get_woken"]
    /\ tmp' = [tmp EXCEPT ![t] = Null]
    /\ UNCHANGED <<tokVars, mapVars, alg, copied>>
    /\ UNCHANGED <<client, max_size, current_size, available, used, created,
                   cv_mutex, held, iter, sat, snap>>

----------------------------------------------------------------------------
(* PWTPool::CopyAlgorithm *)

(* How a call CopyAlgorithm(a) is remembered: by its argument and, when no  *)
(* instance of the pool was checked out at the call, by a mark.             *)
CopyCall(a) ==
    IF empty(used) THEN make_optional(a) \o <<"all_available">>
    ELSE make_optional(a)

(* CopyAlgorithm that also sets the algorithm of the checked-out instances. *)
PWTPool_CopyAlgorithm_All(t, a) ==
    /\ pc[t] = "idle"
    /\ client = "seq"
    /\ AllIdle
    /\ alg' = [i \in DOMAIN alg |-> Clone(a)]
    /\ copied' = make_optional(a)
    /\ UNCHANGED <<tokVars, mapVars>>
    /\ UNCHANGED <<client, max_size, current_size, available, used, created,
                   cv_mutex, pc, tmp, held, iter, sat, snap>>

(* std::unique_lock lock(mutex_) is granted when no Get and no Put holds   *)
(* the shared lock; under it available_instances_.range calls              *)
(* instance->CopyAlgorithm(tmp) on every available instance.               *)
PWTPool_CopyAlgorithm(t, a) ==
    /\ pc[t] = "idle"
    /\ client = "seq"
    /\ AllIdle
    /\ alg' = [i \in DOMAIN alg |->
                 IF contains(available, i) THEN Clone(a) ELSE alg[i]]
    /\ copied' = make_optional(a)
    /\ UNCHANGED <<tokVars, mapVars>>
    /\ UNCHANGED <<client, max_size, current_size, available, used, created,
                   cv_mutex, pc, tmp, held, iter, sat, snap>>

(* The algorithms of the instances a thread can pass to CopyAlgorithm: an  *)
(* instance of its own making or one it holds.                             *)
CopyArguments(t) == {OtherAlgorithm} \cup {alg[x] : x \in held[t]}

----------------------------------------------------------------------------
Next ==
    \E t \in Threads :
        \/ GetStart(t)
        \/ GetCheckEmpty(t)
        \/ GetFetchAdd(t)
        \/ GetCreate(t)
        \/ GetFetchSub(t)
        \/ GetTake(t)
        \/ GetLockCv(t)
        \/ GetPred(t)
        \/ GetBlock(t)
        \/ GetReacquire(t)
        \/ GetUnlockCv(t)
        \/ GetRecord(t)
        \/ SpuriousWakeup(t)
        \/ \E x \in held[t] \cup StaleHandles(t) : PutStart(t, x)
        \/ PutCheck(t)
        \/ PutErase(t)
        \/ PutInsert(t)
        \/ PutNotify(t)
        \/ \E a \in CopyArguments(t) : PWTPool_CopyAlgorithm(t, a)

Spec == Init /\ [][Next]_vars

----------------------------------------------------------------------------
(* PWTPool::CopyAlgorithm, called by a thread of its own while the other    *)
(* threads call Get and Put.                                                *)

CopyInit ==
    /\ client = "concurrent"
    /\ \E M \in 1..MaxPoolSize : PoolInit(M)
    /\ cv_mutex = Null
    /\ pc = [t \in Threads \cup {Copier} |-> "idle"]
    /\ tmp = [t \in Threads |-> Null]
    /\ held = [t \in Threads |-> {}]
    /\ iter = [t \in Threads |-> 0]
    /\ sat = [t \in Threads |-> FALSE]
    /\ snap = NoSnap
    /\ copied = <<>>
    /\ MapParked
    /\ inst = <<>>
    /\ phase = "off"
    /\ nsets = 0
    /\ token = NoToken
    /\ last = NoCall

(* The call: std::unique_lock lock(mutex_) is requested. *)
CopyStart ==
    /\ pc[Copier] = "idle"
    /\ \E wait \in CopyWaits : pc' = [pc EXCEPT ![Copier] = wait]
    /\ UNCHANGED <<tokVars, mapVars, alg, copied>>
    /\ UNCHANGED <<client, max_size, current_size, available, used, created,
                   cv_mutex, tmp, held, iter, sat, snap>>

(* The unique lock is granted when no Get and no Put holds the shared lock; *)
(* a Get that waits in cv_.wait holds it.                                   *)
CopyLock ==
    /\ pc[Copier] \in CopyWaits
    /\ AllIdle
    /\ pc' = [pc EXCEPT ![Copier] = "copy_range"]
    /\ UNCHANGED <<tokVars, mapVars, alg, copied>>
    /\ UNCHANGED <<client, max_size, current_size, available, used, created,
                   cv_mutex, tmp, held, iter, sat, snap>>

(* available_instances_.range calls instance->CopyAlgorithm(tmp) on every   *)
(* available instance; the return releases the lock.                        *)
CopyRange(a) ==
    /\ pc[Copier] = "copy_range"
    /\ alg' = [i \in DOMAIN alg |->
                 IF contains(available, i) THEN Clone(a) ELSE alg[i]]
    /\ copied' = CopyCall(a)
    /\ pc' = [pc EXCEPT ![Copier] = "done"]
    /\ UNCHANGED <<tokVars, mapVars>>
    /\ UNCHANGED <<client, max_size, current_size, available, used, created,
                   cv_mutex, tmp, held, iter, sat, snap>>

CopyNext ==
    \/ \E t \in Threads :
          \/ GetStart(t)
          \/ GetCheckEmpty(t)
          \/ GetFetchAdd(t)
          \/ GetCreate(t)
          \/ GetFetchSub(t)
          \/ GetTake(t)
          \/ GetLockCv(t)
          \/ GetPred(t)
          \/ GetBlock(t)
          \/ GetReacquire(t)
          \/ GetUnlockCv(t)
          \/ GetRecord(t)
          \/ SpuriousWakeup(t)
          \/ \E x \in held[t] : PutStart(t, x)
          \/ PutCheck(t)
          \/ PutErase(t)
          \/ PutInsert(t)
          \/ PutNotify(t)
    \/ CopyStart
    \/ CopyLock
    \/ CopyRange(OtherAlgorithm)

CopySpec == CopyInit /\ [][CopyNext]_vars

----------------------------------------------------------------------------
(* Properties of the pool.                                                 *)

Quiescent == \A t \in Threads : pc[t] = "idle" /\ held[t] = {}
Done(t) == pc[t] = "idle" /\ held[t] = {} /\ iter[t] = MaxIter
HeldAll == UNION {held[t] : t \in Threads}
RECURSIVE SumIter(_)
SumIter(S) == IF S = {} THEN 0
              ELSE LET t == CHOOSE u \in S : TRUE IN iter[t] + SumIter(S \ {t})

(* C1: in every reachable state, also in the middle of concurrent Get and   *)
(* Put calls, GetAvailableSize() + GetUsedSize() == GetCurrentSize() and    *)
(* GetCurrentSize() <= GetMaxSize().                                        *)
C1_SizesAtEveryInstant ==
    /\ GetAvailableSize + GetUsedSize = GetCurrentSize
    /\ GetCurrentSize <= GetMaxSize

(* C2: no instance is held by two threads at the same time: an instance a   *)
(* Get returned is neither available, nor held by another thread, nor about *)
(* to be returned by another Get, until its holder has called Put on it.    *)
C2_NoDoubleHandout ==
    \A t \in Threads : \A x \in held[t] :
        /\ ~contains(available, x)
        /\ \A u \in Threads \ {t} :
              x \notin held[u] /\ ~(pc[u] = "get_record" /\ tmp[u] = x)

(* C2 witness: more threads than instances; one thread holds the instance   *)
(* while another is blocked in Get on the saturated pool.                   *)
C2_Witness ==
    /\ client = "loop"
    /\ NumThreads > max_size
    /\ current_size = max_size
    /\ \E t, u \in Threads : t # u /\ held[t] # {} /\ pc[u] = "get_waiting"

(* C3: a Get called on a saturated pool returns once a concurrent Put of a *)
(* used instance has completed, the notification of that Put is never lost: *)
(* there is no state in which a Get is blocked in cv_.wait, an instance is  *)
(* available and every other call has returned.                             *)
C3_PutWakesBlockedGet ==
    ~ \E t \in Threads :
        /\ sat[t]
        /\ pc[t] = "get_waiting"
        /\ ~empty(available)
        /\ OthersIdle(t)

(* C7: in the scenario of threads looping Get -> Encode -> Put on a pool    *)
(* smaller than the number of threads, all threads terminate: when no       *)
(* thread can take a step of its own any more, every thread has finished    *)
(* all its iterations.                                                       *)
C7_ScenarioAllTerminate ==
    (/\ client = "loop"
     /\ NumThreads > max_size
     /\ \A t \in Threads : Done(t) \/ pc[t] = "get_waiting")
        => \A t \in Threads : Done(t)

(* C8: when every instance obtained by Get has been put back and no call is *)
(* in progress, used == 0 and available == current_size <= max_size.        *)
C8_QuiescentSizes ==
    Quiescent =>
        /\ GetUsedSize = 0
        /\ GetAvailableSize = GetCurrentSize
        /\ GetCurrentSize <= GetMaxSize

(* C8 witness: a quiescent state after every thread has made all its calls, *)
(* in which the pool has grown to max_size.                                 *)
C8_Witness ==
    /\ Quiescent
    /\ client = "free"
    /\ max_size = MaxPoolSize
    /\ current_size = max_size
    /\ \A t \in Threads : iter[t] = MaxIter

(* C9: a pool of max_size M starts with current_size == available ==        *)
(* floor(M/2) and used == 0; a Get made while an instance is available      *)
(* leaves current_size unchanged, takes one from available and adds one to  *)
(* used; a Put of a held instance does the reverse, restoring the counts.   *)
C9_InitGetPutCounts ==
    /\ (AllIdle /\ \A t \in Threads : iter[t] = 0) =>
          /\ GetCurrentSize = GetMaxSize \div 2
          /\ GetAvailableSize = GetMaxSize \div 2
          /\ GetUsedSize = 0
    /\ (client = "seq" /\ AllIdle /\ snap.op = "get" /\ snap.av > 0) =>
          Sizes = [cur |-> snap.cur, av |-> snap.av - 1, us |-> snap.us + 1]
    /\ (client = "seq" /\ AllIdle /\ snap.op = "put") =>
          Sizes = [cur |-> snap.cur, av |-> snap.av + 1, us |-> snap.us - 1]

(* C9 witness: Get, Put, then a second Get that found the instance put back. *)
C9_Witness ==
    /\ client = "seq"
    /\ AllIdle
    /\ snap.op = "get"
    /\ snap.av > 0
    /\ SumIter(Threads) = 2
    /\ Cardinality(HeldAll) = 1

(* C10: current_size changes only by +1, and only inside a Get that found   *)
(* the available set empty while current_size < max_size and that returns   *)
(* a new clone; current_size is never decreased.                            *)
C10_CurrentSizeOnlyGrows ==
    [][current_size' # current_size =>
          /\ current_size' = current_size + 1
          /\ current_size < max_size
          /\ \E t \in Threads : pc[t] = "get_fetch_add" /\ pc'[t] = "get_create"
      ]_vars

(* C11: Put with a null handle or with a handle that is not in the used     *)
(* set changes neither available nor used nor current_size, and the Put     *)
(* that returns at the test of the handle wakes no waiter; a second Put of  *)
(* a handle is such a call. Put of a handle in the used set moves it from   *)
(* used to available.                                                       *)
C11_PutOfUnknownHandleIsNoOp ==
    /\ [](client = "seq" /\ AllIdle /\ snap.op = "put_noop" =>
            /\ available = snap.avm
            /\ used = snap.usm
            /\ current_size = snap.cur)
    /\ [](client = "seq" /\ AllIdle /\ snap.op = "put" =>
            /\ used = erase(snap.usm, snap.arg)
            /\ ~contains(used, snap.arg)
            /\ available = insert(snap.avm, snap.arg, TRUE)
            /\ contains(available, snap.arg))
    /\ [][\A t \in Threads :
            (pc[t] = "put_check" /\ pc'[t] = "idle") =>
                /\ UNCHANGED <<available, used, current_size>>
                /\ \A w \in waiters : pc'[w] = "get_waiting"]_vars

(* C11 witness: the instance that Get created and Put gave back has been    *)
(* put a second time.                                                       *)
C11_Witness ==
    /\ client = "seq"
    /\ AllIdle
    /\ snap.op = "put_noop"
    /\ snap.arg # Null
    /\ contains(snap.avm, snap.arg)
    /\ max_size = 1
    /\ created = 1

(* C12: PWTPool::CopyAlgorithm(x) gives every instance that is available   *)
(* a copy of x's algorithm, leaves the algorithm of every instance in the   *)
(* used set as it was and does not change which instances are available     *)
(* and which are used.                                                      *)
C12_CopyAlgorithmAvailableOnly ==
    [][(copied' # copied \/ (alg' # alg /\ created' = created)) =>
          /\ has_value(copied')
          /\ \A i \in DOMAIN available : alg'[i] = value(copied')
          /\ \A i \in DOMAIN used : alg'[i] = alg[i]
          /\ UNCHANGED <<available, used>>
      ]_vars

(* C12 witness: CopyAlgorithm was called with another algorithm while one   *)
(* instance was available and another one was checked out.                  *)
C12_Witness ==
    /\ has_value(copied)
    /\ value(copied) # TemplateAlgorithm
    /\ \E i \in DOMAIN available : alg[i] = value(copied)
    /\ \E j \in HeldAll : contains(used, j) /\ alg[j] = TemplateAlgorithm

(* C13: as long as PWTPool::CopyAlgorithm has not been called, every       *)
(* instance of the pool, whether the constructor or Get created it, carries *)
(* the key material of the template, and between two calls a token encoded  *)
(* by an instance obtained from the pool is accepted by Decode on every     *)
(* instance obtained from the same pool.                                    *)
C13_PoolInstancesShareKey ==
    ~has_value(copied) =>
        /\ \A i \in DOMAIN alg : alg[i] = Clone(TemplateAlgorithm)
        /\ AllIdle =>
              \A i \in HeldAll : \A j \in HeldAll :
                  LET tok == PWTInstance_Encode(PoolInstance(i))
                  IN /\ ~tok.threw
                     /\ PWTInstance_Decode(PoolInstance(j), tok.out).ret

(* C13 witness: one thread holds the instance the constructor made, another *)
(* the instance a Get created.                                              *)
C13_Witness ==
    /\ ~has_value(copied)
    /\ AllIdle
    /\ max_size = 2
    /\ HeldAll = {1, 2}

TypeOK ==
    /\ client \in {"free", "loop", "seq"}
    /\ max_size \in 1..MaxPoolSize
    /\ current_size \in 0..(MaxPoolSize + NumThreads)
    /\ DOMAIN available \subseteq 1..MaxPoolSize
    /\ DOMAIN used \subseteq 1..MaxPoolSize
    /\ created \in 0..MaxPoolSize
    /\ cv_mutex \in Threads \cup {Null}
    /\ iter \in [Threads -> 0..MaxIter]
    /\ sat \in [Threads -> BOOLEAN]

----------------------------------------------------------------------------
(* Two instances, "enc" and "dec", are constructed and configured; "enc"  *)
(* encodes a token, which reaches "dec" unchanged or with another          *)
(* signature, and "dec" decodes or validates it.                           *)

Any1 == [type_url |-> "type.googleapis.com/T", value |-> "u"]

TokInit ==
    /\ \E k \in Keys, p \in {PWTPayload("pbi1"),
                             InitConstructor("pbi1", "", "", [str |-> ""],
                                             0, 0, 60, nullopt)} :
          inst = [i \in Ids |->
                    IF i = "enc"
                    THEN PWTInstance(p, Algorithm(Key1, "iv1", "salt1"))
                    ELSE PWTInstance(PWTPayload("pbi2"),
                                     Algorithm(k, "iv2", "salt2"))]
    /\ phase = "setup"
    /\ nsets = 0
    /\ token = NoToken
    /\ last = NoCall
    /\ client = "none"
    /\ PoolInit(0)
    /\ cv_mutex = Null
    /\ pc = [t \in Threads |-> "idle"]
    /\ tmp = [t \in Threads |-> Null]
    /\ held = [t \in Threads |-> {}]
    /\ iter = [t \in Threads |-> 0]
    /\ sat = [t \in Threads |-> FALSE]
    /\ snap = NoSnap
    /\ copied = <<>>
    /\ MapParked

\* A setter call on inst[i] that leaves it as self
Set(i, self) ==
    /\ phase = "setup"
    /\ ~Unset(inst[i])
    /\ nsets < MaxSets
    /\ inst' = [inst EXCEPT ![i] = self]
    /\ nsets' = nsets + 1
    /\ UNCHANGED <<phase, token, last, poolVars, mapVars>>

SetType(i, typ) ==
    Set(i, IF Len(typ) <= 255 THEN [inst[i] EXCEPT !.header.typ = typ]
           ELSE inst[i])

SetKeyID(i, kid) == Set(i, [inst[i] EXCEPT !.header.kid = kid])

SetPWK(i, pwk) == Set(i, [inst[i] EXCEPT !.header.pwk = pwk])

SetX5U(i, x5u) == Set(i, [inst[i] EXCEPT !.header.x5u = x5u])

AddHeaderCustomField_Store(i, key, val) ==
    Set(i, [inst[i] EXCEPT !.header.custom_fields = (key :> val) @@ @])

AddHeaderCustomField(i, key, val) ==
    Set(i, [inst[i] EXCEPT !.header.custom_fields = insert(@, key, val)])

SetCustomHeader(i, custom_header) ==
    Set(i, [inst[i] EXCEPT
              !.header.custom_header = make_optional(custom_header)])

SetIssuer(i, iss) == Set(i, [inst[i] EXCEPT !.payload.iss = iss])

SetSubject(i, sub) == Set(i, [inst[i] EXCEPT !.payload.sub = sub])

SetAudience(i, aud) == Set(i, [inst[i] EXCEPT !.payload.aud = [str |-> aud]])

SetAudience_vector(i, aud) ==
    Set(i, [inst[i] EXCEPT !.payload.aud = [vec |-> aud]])

\* What a std::string holds after it was moved from: valid but
\* unspecified; the libraries leave it empty or as it was.
MovedFrom(str) == {"", str}

\* PWTPayload::AddAudience(const std::string&): the audience afterwards
PWTPayload_AddAudience(aud_, aud) ==
    IF "str" \in DOMAIN aud_ THEN [vec |-> <<aud_.str, aud>>]
    ELSE [vec |-> Append(aud_.vec, aud)]

\* PWTPayload::AddAudience(const std::vector<std::string>&): the audiences
\* it can leave. On a scalar it builds the list from aud_ twice, the
\* second time after aud_ was moved from, and does not read auds.
PWTPayload_AddAudience_vector(aud_, auds) ==
    IF "str" \in DOMAIN aud_
    THEN {[vec |-> <<aud_.str, m>>] : m \in MovedFrom(aud_.str)}
    ELSE {[vec |-> aud_.vec \o auds]}

AddAudience(i, aud) ==
    Set(i, [inst[i] EXCEPT !.payload.aud = PWTPayload_AddAudience(@, aud)])

AddAudience_vector(i, auds) ==
    /\ ~Unset(inst[i])
    /\ \E r \in PWTPayload_AddAudience_vector(inst[i].payload.aud, auds) :
          Set(i, [inst[i] EXCEPT !.payload.aud = r])

SetExpirationTime(i, exp) ==
    Set(i, [inst[i] EXCEPT !.payload.exp = make_optional(GetTimestamp(exp))])

SetNotBeforeTime(i, nbf) ==
    Set(i, [inst[i] EXCEPT !.payload.nbf = make_optional(GetTimestamp(nbf))])

SetIssuedAtTime(i, iat) ==
    Set(i, [inst[i] EXCEPT !.payload.iat = make_optional(GetTimestamp(iat))])

AddPayloadCustomField(i, key, val) ==
    Set(i, [inst[i] EXCEPT !.payload.custom_fields = insert(@, key, val)])

SetCustomPayload(i, custom_payload) ==
    Set(i, [inst[i] EXCEPT
              !.payload.custom_payload = make_optional(custom_payload)])

PWTInstance_CopyAlgorithm_Whole(i, j) == inst[j]

\* PWTInstance::CopyAlgorithm: what inst[i] is after
\* inst[i].CopyAlgorithm(inst[j])
PWTInstance_CopyAlgorithm(i, j) ==
    IF i = j THEN inst[i]
    ELSE [inst[i] EXCEPT !.crypto = Clone(inst[j].crypto)]

\* inst[i].CopyAlgorithm(inst[j])
CopyAlgorithm(i, j) ==
    /\ phase = "setup"
    /\ ~Unset(inst[i]) /\ ~Unset(inst[j])
    /\ inst' = [inst EXCEPT ![i] = PWTInstance_CopyAlgorithm(i, j)]
    /\ UNCHANGED <<phase, nsets, token, last, poolVars, mapVars>>

\* operator< of google::protobuf::Timestamp: seconds first, then nanos
TimestampLess(a, b) ==
    a.seconds < b.seconds \/ (a.seconds = b.seconds /\ a.nanos < b.nanos)

\* What the clock can read when IsExpired is called: before, at and after
\* the expiration instant that SetExpirationTime(60) and the constructor
\* set
ClockReadings ==
    {[seconds |-> Now.seconds + d[1], nanos |-> Now.nanos + d[2]] :
        d \in {<<0, 0>>, <<60, -1>>, <<60, 0>>, <<60, 1>>, <<61, -1>>}}

PWTPayloadBase_IsExpired_AtInstant(p, now) ==
    IF ~has_value(p.exp) THEN FALSE
    ELSE ~TimestampLess(now, value(p.exp))

\* PWTPayloadBase::IsExpired when the clock reads now
PWTPayloadBase_IsExpired(p, now) ==
    IF ~has_value(p.exp) THEN FALSE
    ELSE TimestampLess(value(p.exp), now)

\* inst[i].IsExpired() when the clock reads now
IsExpired(i, now) ==
    /\ phase = "setup"
    /\ ~Unset(inst[i])
    /\ last' = [op |-> "IsExpired", now |-> now,
                ret |-> PWTPayloadBase_IsExpired(inst[i].payload, now),
                pre |-> inst[i], tampered |-> FALSE]
    /\ phase' = "done"
    /\ UNCHANGED <<inst, nsets, token, poolVars, mapVars>>

\* What GeneratePbi gives the payload of a copy: a fresh nonce, or the
\* empty string when the random generator fails
ClonePbis == {"pbi3", ""}

PWTInstance_Clone_DefaultHeader(self, pbi) ==
    [header |-> PWTHeader,
     payload |-> [self.payload EXCEPT !.pbi = pbi],
     crypto |-> Clone(self.crypto)]

\* PWTInstance::Clone: header_->Clone(), payload_->Clone(), which copies
\* every field but pbi_, and crypto_->Clone()
PWTInstance_Clone(self, pbi) ==
    [header |-> self.header,
     payload |-> [self.payload EXCEPT !.pbi = pbi],
     crypto |-> Clone(self.crypto)]

\* inst["dec"] = inst["enc"].Clone(), one of the MaxSets calls of a run
CloneEnc(pbi) ==
    /\ phase = "setup"
    /\ nsets < MaxSets
    /\ ~Unset(inst["enc"])
    /\ inst' = [inst EXCEPT
                  !["dec"] = MoveConstructor(
                                inst["dec"],
                                PWTInstance_Clone(inst["enc"], pbi)).this]
    /\ nsets' = nsets + 1
    /\ UNCHANGED <<phase, token, last, poolVars, mapVars>>

\* PWTInstance other(std::move(inst["enc"]))
Move ==
    /\ phase = "setup"
    /\ ~Unset(inst["enc"])
    /\ inst' = [inst EXCEPT
                  !["enc"] = MoveConstructor(MovedInto, inst["enc"]).other]
    /\ UNCHANGED <<phase, nsets, token, last, poolVars, mapVars>>

\* token = inst["enc"].Encode()
Encode ==
    /\ phase = "setup"
    /\ IF Unset(inst["enc"])
       THEN \E o \in NullDereference :
              /\ phase' = "done"
              /\ token' = token
              /\ last' = [op |-> "Encode", ret |-> FALSE, error |-> o,
                          pre |-> inst["enc"], tampered |-> FALSE]
       ELSE LET r == PWTInstance_Encode(inst["enc"])
            IN /\ phase' = IF r.threw THEN "done" ELSE "encoded"
               /\ token' = [msg |-> r.out, tampered |-> FALSE]
               /\ last' = [op |-> "Encode", ret |-> ~r.threw,
                           error |-> IF r.threw THEN "invalid_argument"
                                     ELSE "none",
                           pre |-> inst["enc"], tampered |-> FALSE]
    /\ UNCHANGED <<inst, nsets, poolVars, mapVars>>

\* The signatures a token can carry
Signatures(msg) ==
    IF msg = <<>> \/ ~ParseFromString(msg, DefaultPWTMessage).ok THEN {}
    ELSE {<<[k |-> h, d |-> msg[1].header \o msg[1].payload]>> :
            h \in {"h1", "h2", "h3"}}

\* The token's signature is replaced by a different one on its way.
Tamper(sig) ==
    /\ phase = "encoded"
    /\ ~token.tampered
    /\ sig \in Signatures(token.msg)
    /\ sig # token.msg[1].signature
    /\ token' = [msg |-> <<[token.msg[1] EXCEPT !.signature = sig]>>,
                 tampered |-> TRUE]
    /\ UNCHANGED <<inst, phase, nsets, last, poolVars, mapVars>>

\* Zero bytes, and bytes that are no PWTMessage
Malformed == {<<>>, <<[garbage |-> TRUE]>>}

\* What reaches the decoder is not the token but msg.
Corrupt(msg) ==
    /\ phase = "encoded"
    /\ ~token.tampered
    /\ msg \in Malformed
    /\ token' = [msg |-> msg, tampered |-> TRUE]
    /\ UNCHANGED <<inst, phase, nsets, last, poolVars, mapVars>>

\* inst["dec"].Decode(token)
Decode ==
    /\ phase = "encoded"
    /\ LET r == PWTInstance_Decode(inst["dec"], token.msg)
       IN /\ inst' = [inst EXCEPT !["dec"] = r.self]
          /\ last' = [op |-> "Decode", ret |-> r.ret, pre |-> inst["dec"],
                      tampered |-> token.tampered]
    /\ phase' = "done"
    /\ UNCHANGED <<nsets, token, poolVars, mapVars>>

\* inst["dec"].IsTokenValid(token)
IsTokenValid ==
    /\ phase = "encoded"
    /\ last' = [op |-> "IsTokenValid",
                ret |-> PWTInstance_IsTokenValid(inst["dec"], token.msg),
                pre |-> inst["dec"], tampered |-> token.tampered]
    /\ phase' = "done"
    /\ UNCHANGED <<inst, nsets, token, poolVars, mapVars>>

TokNext ==
    \/ \E i \in Ids :
        \/ \E typ \in {"", "JWT"} : SetType(i, typ)
        \/ SetKeyID(i, "kid")
        \/ SetPWK(i, "pwk")
        \/ SetX5U(i, "x5u")
        \/ \E val \in {"v1", "v2"} : AddHeaderCustomField(i, "k1", val)
        \/ \E a \in {DefaultAny, Any1} : SetCustomHeader(i, a)
        \/ SetIssuer(i, "iss")
        \/ SetSubject(i, "sub")
        \/ SetAudience(i, "a")
        \/ \E aud \in {<<>>, <<"a", "b">>} : SetAudience_vector(i, aud)
        \/ SetExpirationTime(i, 60)
        \/ SetNotBeforeTime(i, 0)
        \/ SetIssuedAtTime(i, 0)
        \/ \E val \in {"v1", "v2"} : AddPayloadCustomField(i, "k1", val)
        \/ \E a \in {DefaultAny, Any1} : SetCustomPayload(i, a)
    \/ \E j \in Ids : CopyAlgorithm("dec", j)
    \/ \E i \in Ids, now \in ClockReadings : IsExpired(i, now)
    \/ \E pbi \in ClonePbis : CloneEnc(pbi)
    \/ Move
    \/ Encode
    \/ \E sig \in Signatures(token.msg) : Tamper(sig)
    \/ \E msg \in Malformed : Corrupt(msg)
    \/ Decode
    \/ IsTokenValid

TokSpec == TokInit /\ [][TokNext]_vars

----------------------------------------------------------------------------
\* One instance that is built with the convenience constructor of its
\* payload and then configured by the calls that add to what it holds.

\* The arguments exp, nbf and iat of the constructor, in seconds from now
CtorTimes == {0, 60}

CtorAudiences == {[str |-> ""], [str |-> "a"], [vec |-> <<"a", "b">>]}

SetterInit ==
    /\ inst = [i \in Ids |-> MovedInto]
    /\ phase = "setup"
    /\ nsets = 0
    /\ token = NoToken
    /\ last = NoCall
    /\ client = "none"
    /\ PoolInit(0)
    /\ cv_mutex = Null
    /\ pc = [t \in Threads |-> "idle"]
    /\ tmp = [t \in Threads |-> Null]
    /\ held = [t \in Threads |-> {}]
    /\ iter = [t \in Threads |-> 0]
    /\ sat = [t \in Threads |-> FALSE]
    /\ snap = NoSnap
    /\ copied = <<>>
    /\ MapParked

\* inst["enc"] = PWTInstance(PWTHeader(),
\*                           PWTPayload("iss", "sub", aud, nullopt, exp, nbf, iat),
\*                           Algorithm(...))
NewPWTPayload(aud, exp, nbf, iat) ==
    /\ phase = "setup"
    /\ Unset(inst["enc"])
    /\ inst' = [inst EXCEPT
                  !["enc"] = PWTInstance(
                      InitConstructor("pbi1", "iss", "sub", aud,
                                      exp, nbf, iat, nullopt),
                      Algorithm(Key1, "iv1", "salt1"))]
    /\ UNCHANGED <<phase, nsets, token, last, poolVars, mapVars>>

\* Messages signed under the key of self of which a part does not parse:
\* the payload, the extension blob of the header, or the extension blob
\* of the payload
Forged(self) ==
    LET garbage == <<[garbage |-> TRUE]>>
        blob(head) == SerializeAsString([head |-> head, custom |-> garbage],
                                        DefaultInstanceMessage)
        header == [typ |-> "JWT", kid |-> "kid", pwk |-> "", x5u |-> "",
                   custom |-> {<<"k2", "v2">>}]
        payload == [DefaultPayloadMessage EXCEPT !.iss = "other"]
        h == PWTHeaderBase_Encode([PWTHeader EXCEPT !.typ = "JWT"])
        p == PWTPayloadBase_Encode(PWTPayload("pbi9"))
        parts == {<<h, garbage>>,
                  <<blob(SerializeAsString(header, DefaultHeaderMessage)), p>>,
                  <<h, blob(SerializeAsString(payload,
                                              DefaultPayloadMessage))>>}
    IN {SerializeAsString([header |-> x[1], payload |-> x[2],
                           signature |-> Sign(self, x[1] \o x[2]).out],
                          DefaultPWTMessage) : x \in parts}

\* inst["enc"].Decode(msg)
DecodeMessage(msg) ==
    /\ phase = "setup"
    /\ ~Unset(inst["enc"])
    /\ LET r == PWTInstance_Decode(inst["enc"], msg)
       IN /\ inst' = [inst EXCEPT !["enc"] = r.self]
          /\ last' = [op |-> "Decode", ret |-> r.ret, pre |-> inst["enc"],
                      tampered |-> FALSE, msg |-> msg]
    /\ phase' = "done"
    /\ UNCHANGED <<nsets, token, poolVars, mapVars>>

SetterNext ==
    \/ \E aud \in CtorAudiences, exp \in CtorTimes, nbf \in CtorTimes,
          iat \in CtorTimes : NewPWTPayload(aud, exp, nbf, iat)
    \/ AddAudience("enc", "c")
    \/ \E auds \in {<<>>, <<"c", "d">>} : AddAudience_vector("enc", auds)
    \/ \E key \in {"k1", "k2"}, val \in {"v1", "v2"} :
          \/ AddHeaderCustomField("enc", key, val)
          \/ AddPayloadCustomField("enc", key, val)
    \/ \E now \in ClockReadings : IsExpired("enc", now)
    \/ /\ ~Unset(inst["enc"])
       /\ \E msg \in Malformed \cup Forged(inst["enc"]) : DecodeMessage(msg)

SetterSpec == SetterInit /\ [][SetterNext]_vars

----------------------------------------------------------------------------
\* The claims a token carries, as the accessors of PWTInstance return them
Claims(self) ==
    [typ |-> self.header.typ, kid |-> self.header.kid,
     pwk |-> self.header.pwk, x5u |-> self.header.x5u,
     header_custom_fields |-> self.header.custom_fields,
     custom_header |-> self.header.custom_header,
     iss |-> self.payload.iss, sub |-> self.payload.sub,
     aud |-> self.payload.aud, exp |-> self.payload.exp,
     nbf |-> self.payload.nbf, iat |-> self.payload.iat,
     payload_custom_fields |-> self.payload.custom_fields,
     custom_payload |-> self.payload.custom_payload]

\* "dec" has called Decode on the token of "enc" as it was encoded.
Decoded ==
    /\ phase = "done"
    /\ last.op = "Decode"
    /\ ~last.tampered

\* C4: after the decoder took the encoder's algorithm by CopyAlgorithm,
\* decoding the encoder's token returns true and leaves the decoder with
\* the encoder's value in every field, whatever the decoder held before.
C4_RoundTrip ==
    (Decoded /\ last.pre.crypto = inst["enc"].crypto)
        => (last.ret = TRUE /\ Claims(inst["dec"]) = Claims(inst["enc"]))

\* C5: a token whose signature was changed is rejected by Decode and by
\* IsTokenValid on an instance that holds the encoder's key, and the
\* rejected Decode leaves every field of the instance as it was.
C5_TamperDetected ==
    (phase = "done" /\ last.op \in {"Decode", "IsTokenValid"}
        /\ last.tampered /\ last.pre.crypto.key = inst["enc"].crypto.key)
        => (last.ret = FALSE /\ inst["dec"] = last.pre)

\* A tampered token was given to Decode on an instance with the encoder's
\* key after the decoder had been configured.
C5_Witness ==
    /\ phase = "done"
    /\ last.op = "Decode"
    /\ last.tampered
    /\ token.msg \notin Malformed
    /\ last.pre.crypto = inst["enc"].crypto
    /\ last.pre.header # PWTHeader

\* C6: Decode returns false on an instance whose key differs from the
\* encoder's key in any byte.
C6_KeyMismatchRejected ==
    (Decoded /\ last.pre.crypto.key # inst["enc"].crypto.key)
        => last.ret = FALSE

----------------------------------------------------------------------------
(* atomic_unordered_map under concurrent callers: two maps "a" and "b",    *)
(* each with its own shared_mutex. A call takes the locks its code takes,  *)
(* reads map_ when it has them and writes map_ and releases them when its  *)
(* body is done.                                                           *)

MapNames == {"a", "b"}

\* Keys are 1..NumThreads, Key() is Null; key t is the one thread t uses
\* when the threads work on disjoint keys.
MapKeys == Threads

MapValues == {"v1", "v2"}

\* T() of a std::string value
DefaultValue == ""

store_IfAbsent(m, k, v) == IF k \in DOMAIN m THEN m ELSE (k :> v) @@ m

\* store: map_[key] = value
store(m, k, v) == (k :> v) @@ m

at_NoThrow(m, k) ==
    [threw |-> FALSE, out |-> IF k \in DOMAIN m THEN m[k] ELSE DefaultValue]

\* at: map_.at(key), which throws std::out_of_range for an absent key
at(m, k) ==
    IF k \in DOMAIN m THEN [threw |-> FALSE, out |-> m[k]]
    ELSE [threw |-> TRUE, out |-> DefaultValue]

\* operator[]: return map_[key], where std::unordered_map::operator[]
\* inserts a value-initialized entry for an absent key
subscript(m, k) ==
    IF k \in DOMAIN m THEN [map |-> m, out |-> m[k]]
    ELSE [map |-> (k :> DefaultValue) @@ m, out |-> DefaultValue]

merge_Overwrite(m, o) ==
    [self |-> o @@ m, other |-> [x \in DOMAIN o \cap DOMAIN m |-> o[x]]]

\* merge: map_.merge(other.map_) moves the entries of other whose key is
\* not in map_ and leaves the rest in other
merge(m, o) ==
    [self |-> m @@ o, other |-> [x \in DOMAIN o \cap DOMAIN m |-> o[x]]]

\* The pair that pair_begin returns when it took key k from m
pair_of(m, k) == <<k, IF k = Null THEN DefaultValue ELSE m[k]>>

\* The calls on one member of one object. In scenario "clone" the object
\* a is an AlgorithmBase: Clone reads it and SetKey writes it, both under
\* its mutex_. In "payload_fields" the member is aud_ of a PWTPayloadBase:
\* Decode writes it under mutex_ (a), SetAudience writes it and GetAudience
\* reads it under aud_mutex_ (b). In "header_fields" the member is typ_ of
\* a PWTHeaderBase: SetType writes it under mutex_ (a) and Encode reads it
\* under custom_header_mutex_ (b). map_["a"] is what the member holds.
MemberScenarios == {"clone", "payload_fields", "header_fields"}

WriteOps == {"SetKey", "Decode", "SetAudience", "SetType"}

ReadOps == {"GetAudience", "Encode"}

UniqueOps == {"insert", "store", "erase", "pair_begin"} \cup WriteOps

SharedOps == {"at", "subscript"} \cup ReadOps

\* CopyConstruct and MoveConstruct lock this, then other
OrderedOps == {"copy_from", "move"}

\* swap and merge take both locks with std::lock
StdLockOps == {"swap", "merge"}

\* Two objects a and b of one class that are copied into each other:
\* PWTInstances (CopyAlgorithm under crypto_mutex_), Algorithms or
\* PWTHeaders (CopyConstructor under mutex_). mutex_[m] is then the mutex
\* of object m and map_[m] what the copy copies.
EntityScenarios == {"instances", "algorithms", "headers"}

EntityOp ==
    CASE scenario = "instances" -> "CopyAlgorithm"
      [] scenario = "algorithms" -> "Algorithm_CopyConstructor"
      [] scenario = "headers" -> "PWTHeader_CopyConstructor"
      [] OTHER -> "none"

\* The copies that lock other, then this
EntityOps == {"CopyAlgorithm", "Algorithm_CopyConstructor",
              "PWTHeader_CopyConstructor"}

Call(op, m, k, v, o) ==
    [op |-> op, m |-> m, k |-> k, v |-> v, o |-> o, seen |-> <<>>]

MultiCalls(ms, os) ==
    {Call(op, m, Null, DefaultValue, o) :
        op \in OrderedOps \cup StdLockOps, m \in ms, o \in os}

\* The calls thread t may make: every method from one thread, insert and
\* erase of its own key from every thread, pair_begin from every thread,
\* or the operations between a and b from two threads
Calls(t) ==
    CASE scenario = "api" ->
           IF t # 1 THEN {}
           ELSE {Call(op, "a", k, v, "a") :
                    op \in {"insert", "store"}, k \in MapKeys, v \in MapValues}
                \cup {Call(op, "a", k, DefaultValue, "a") :
                        op \in {"erase", "at", "subscript"}, k \in MapKeys}
                \cup {Call("pair_begin", "a", Null, DefaultValue, "a")}
                \cup MultiCalls({"a"}, MapNames)
      [] scenario = "disjoint" ->
           {Call("insert", "a", t, "v1", "a"),
            Call("erase", "a", t, DefaultValue, "a")}
      [] scenario = "take" ->
           {Call("pair_begin", "a", Null, DefaultValue, "a")}
      [] scenario = "multi" ->
           IF t > 2 THEN {}
           ELSE {c \in MultiCalls(MapNames, MapNames) : c.m # c.o}
      [] scenario = "clone" ->
           IF t > 2 THEN {}
           ELSE {Call("Clone", "a", Null, DefaultValue, "a"),
                 Call("SetKey", "a", Null, "v2", "a")}
      [] scenario = "payload_fields" ->
           IF t > 2 THEN {}
           ELSE {Call("Decode", "a", Null, "v2", "a"),
                 Call("SetAudience", "b", Null, "v2", "b"),
                 Call("GetAudience", "b", Null, DefaultValue, "b")}
      [] scenario = "header_fields" ->
           IF t > 2 THEN {}
           ELSE {Call("SetType", "a", Null, "v2", "a"),
                 Call("Encode", "b", Null, DefaultValue, "b")}
      [] scenario \in EntityScenarios ->
           IF t > 2 THEN {}
           ELSE {Call(EntityOp, m, Null, DefaultValue, o) :
                    m \in MapNames, o \in MapNames}
      [] OTHER -> {}

FreeMutex == [w |-> Null, r |-> {}]

\* std::unique_lock / std::shared_lock on mutex_[m] can be granted
CanLock_Always(m, mode) == TRUE

CanLock(m, mode) ==
    IF mode = "unique" THEN mutex_[m].w = Null /\ mutex_[m].r = {}
    ELSE mutex_[m].w = Null

Locked(mx, t, mode) ==
    IF mode = "unique" THEN [mx EXCEPT !.w = t]
    ELSE [mx EXCEPT !.r = @ \cup {t}]

Unlocked(mx, t) ==
    [w |-> IF mx.w = t THEN Null ELSE mx.w, r |-> mx.r \ {t}]

\* The maps over the keys in which every value is v
MapsOf(v) == UNION {[S -> {v}] : S \in SUBSET MapKeys}

MapInit ==
    /\ scenario \in {"api", "disjoint", "take", "multi"}
                      \cup EntityScenarios \cup MemberScenarios
    /\ \E a \in IF scenario \in {"multi"} \cup EntityScenarios
                                    \cup MemberScenarios THEN {[k \in MapKeys |-> "v1"]}
                 ELSE MapsOf("v1"),
          b \in IF scenario \in MemberScenarios THEN {EmptyMap}
                 ELSE {EmptyMap, [k \in MapKeys |-> "v2"]} :
          map_ = [m \in MapNames |->
                    IF m = "b" THEN b
                    ELSE IF scenario = "disjoint" THEN EmptyMap ELSE a]
    /\ mutex_ = [m \in MapNames |-> FreeMutex]
    /\ mpc = [t \in Threads |-> "idle"]
    /\ call = [t \in Threads |-> NoCall]
    /\ ncalls = [t \in Threads |-> 0]
    /\ ret = [t \in Threads |-> NoCall]
    /\ taken = [k \in MapKeys |-> 0]
    /\ client = "none"
    /\ PoolInit(0)
    /\ cv_mutex = Null
    /\ pc = [t \in Threads |-> "idle"]
    /\ tmp = [t \in Threads |-> Null]
    /\ held = [t \in Threads |-> {}]
    /\ iter = [t \in Threads |-> 0]
    /\ sat = [t \in Threads |-> FALSE]
    /\ snap = NoSnap
    /\ copied = <<>>
    /\ inst = <<>>
    /\ phase = "off"
    /\ nsets = 0
    /\ token = NoToken
    /\ last = NoCall

\* Thread t starts call c.
MapBegin(t, c) ==
    /\ mpc[t] = "idle"
    /\ ncalls[t] < MaxCalls
    /\ c \in Calls(t)
    /\ call' = [call EXCEPT ![t] = c]
    /\ ncalls' = [ncalls EXCEPT ![t] = @ + 1]
    /\ mpc' = [mpc EXCEPT ![t] = "start"]
    /\ UNCHANGED <<scenario, map_, mutex_, ret, taken, poolVars, tokVars>>

\* Thread t is granted the locks named in ms; once it holds every lock of
\* its call it reads map_.
Acquire(t, ms, mode, to) ==
    /\ \A m \in ms : CanLock(m, mode)
    /\ mutex_' = [m \in MapNames |->
                    IF m \in ms THEN Locked(mutex_[m], t, mode) ELSE mutex_[m]]
    /\ call' = [call EXCEPT ![t].seen = IF to = "locked" THEN map_ ELSE @]
    /\ mpc' = [mpc EXCEPT ![t] = to]
    /\ UNCHANGED <<scenario, map_, ncalls, ret, taken, poolVars, tokVars>>

\* The call of thread t returns out, leaving the maps as maps and the
\* pair_begin counts as tk; its locks are released.
Return(t, maps, out, tk) ==
    /\ map_' = maps
    /\ taken' = tk
    /\ mutex_' = [m \in MapNames |-> Unlocked(mutex_[m], t)]
    /\ ret' = IF scenario \in {"api", "disjoint"}
              THEN [ret EXCEPT ![t] = [call |-> [call[t] EXCEPT !.seen = <<>>],
                                       out |-> out,
                                       pre |-> IF scenario = "api"
                                               THEN call[t].seen ELSE <<>>]]
              ELSE ret
    /\ call' = [call EXCEPT ![t] = NoCall]
    /\ mpc' = [mpc EXCEPT ![t] = "idle"]
    /\ UNCHANGED <<scenario, ncalls, poolVars, tokVars>>

\* if (this == &other) return; of CopyConstruct, MoveConstruct, swap, merge,
\* CopyAlgorithm and the CopyConstructors
SelfReturn(t) ==
    /\ mpc[t] = "start"
    /\ call[t].op \in OrderedOps \cup StdLockOps \cup EntityOps
    /\ call[t].m = call[t].o
    /\ call' = [call EXCEPT ![t] = NoCall]
    /\ mpc' = [mpc EXCEPT ![t] = "idle"]
    /\ ret' = [ret EXCEPT ![t] = [call |-> call[t], out |-> "self",
                                  pre |-> map_]]
    /\ UNCHANGED <<scenario, map_, mutex_, ncalls, taken, poolVars, tokVars>>

\* std::unique_lock lock(mutex_) of insert, store, erase, pair_begin
LockUnique(t) ==
    /\ mpc[t] = "start"
    /\ call[t].op \in UniqueOps
    /\ Acquire(t, {call[t].m}, "unique", "locked")

\* std::shared_lock lock(mutex_) of at and operator[]
LockShared(t) ==
    /\ mpc[t] = "start"
    /\ call[t].op \in SharedOps
    /\ Acquire(t, {call[t].m}, "shared", "locked")

\* std::unique_lock lock(mutex_) of CopyConstruct and MoveConstruct
LockThis(t) ==
    /\ mpc[t] = "start"
    /\ call[t].op \in OrderedOps
    /\ call[t].m # call[t].o
    /\ Acquire(t, {call[t].m}, "unique", "locked_this")

\* std::shared_lock other_lock(other.mutex_) of CopyConstruct,
\* std::unique_lock other_lock(other.mutex_) of MoveConstruct
LockOther(t) ==
    /\ mpc[t] = "locked_this"
    /\ Acquire(t, {call[t].o},
               IF call[t].op = "copy_from" THEN "shared" ELSE "unique",
               "locked")

\* std::lock(lock, other_lock) of swap and merge: both or none
StdLock(t) ==
    /\ mpc[t] = "start"
    /\ call[t].op \in StdLockOps
    /\ call[t].m # call[t].o
    /\ Acquire(t, {call[t].m, call[t].o}, "unique", "locked")

\* std::shared_lock lock(other.mutex_) of Algorithm::CopyConstructor and
\* PWTHeader::CopyConstructor, std::shared_lock lock(other.crypto_mutex_)
\* of PWTInstance::CopyAlgorithm
LockSource(t) ==
    /\ mpc[t] = "start"
    /\ call[t].op \in EntityOps
    /\ call[t].m # call[t].o
    /\ Acquire(t, {call[t].o}, "shared", "locked_other")

\* std::unique_lock lock2(this->mutex_), lock2(this->crypto_mutex_)
LockDestination(t) ==
    /\ mpc[t] = "locked_other"
    /\ Acquire(t, {call[t].m}, "unique", "locked")

\* The call of t, one of ops, holds its locks.
InBodyOf(t, ops) == mpc[t] = "locked" /\ call[t].op \in ops

\* std::shared_lock lock(this->mutex_) of AlgorithmBase::Clone
CloneLock(t) ==
    /\ mpc[t] = "start"
    /\ call[t].op = "Clone"
    /\ Acquire(t, {call[t].m}, "shared", "clone_locked")

\* A thread that waits for the unique lock of m
WriterWaits(m) ==
    \E u \in Threads :
        mpc[u] = "start" /\ call[u].op \in UniqueOps /\ call[u].m = m

\* std::make_unique<AlgorithmBase>(*this): the copy constructor takes
\* std::shared_lock lock(other.mutex_), the lock that Clone holds. To lock
\* a shared_mutex that the thread owns is undefined: the lock is granted
\* again, or, where a waiting writer keeps new readers out, never.
CloneRelock(t) ==
    /\ mpc[t] = "clone_locked"
    /\ \/ Acquire(t, {call[t].m}, "shared", "locked")
       \/ /\ WriterWaits(call[t].m)
          /\ mpc' = [mpc EXCEPT ![t] = "blocked"]
          /\ UNCHANGED <<scenario, map_, mutex_, call, ncalls, ret, taken,
                         poolVars, tokVars>>

\* Clone returns the copy, which b is.
CloneReturn(t) ==
    /\ InBodyOf(t, {"Clone"})
    /\ Return(t, [map_ EXCEPT !["b"] = call[t].seen[call[t].m]],
              "void", taken)

\* Another call reads or writes the member while the call of t, or that
\* call, writes it.
Racing(t) ==
    \E u \in Threads \ {t} :
        /\ mpc[u] = "locked"
        /\ call[u].op \in WriteOps \cup ReadOps
        /\ call[t].op \in WriteOps \/ call[u].op \in WriteOps

\* What a member can hold after it was written during a race
Torn == EmptyMap

\* this->key_ = key; this->aud_ = aud; this->typ_ = typ
MemberWrite(t) ==
    /\ InBodyOf(t, WriteOps)
    /\ \E w \in {[k \in MapKeys |-> call[t].v]}
                \cup (IF Racing(t) THEN {Torn} ELSE {}) :
          Return(t, [map_ EXCEPT !["a"] = w], "void", taken)

\* return this->aud_; the reads of typ_ in Encode
MemberRead(t) ==
    /\ InBodyOf(t, ReadOps)
    /\ Return(t, map_, "void", taken)

\* The body of call[t] runs on the maps it read under its locks.
InBody(t, op) == mpc[t] = "locked" /\ call[t].op = op

Insert(t) ==
    /\ InBody(t, "insert")
    /\ LET c == call[t]
       IN Return(t, [map_ EXCEPT ![c.m] = insert(c.seen[c.m], c.k, c.v)],
                 ~contains(c.seen[c.m], c.k), taken)

Store(t) ==
    /\ InBody(t, "store")
    /\ LET c == call[t]
       IN Return(t, [map_ EXCEPT ![c.m] = store(c.seen[c.m], c.k, c.v)],
                 "void", taken)

Erase(t) ==
    /\ InBody(t, "erase")
    /\ LET c == call[t]
       IN Return(t, [map_ EXCEPT ![c.m] = erase(c.seen[c.m], c.k)],
                 "void", taken)

PairBegin(t) ==
    /\ InBody(t, "pair_begin")
    /\ LET c == call[t]
       IN \E pr \in pair_begin(c.seen[c.m]) :
            Return(t, [map_ EXCEPT ![c.m] = pr[2]],
                   pair_of(c.seen[c.m], pr[1]),
                   IF pr[1] = Null THEN taken
                   ELSE [taken EXCEPT ![pr[1]] = @ + 1])

At(t) ==
    /\ InBody(t, "at")
    /\ LET c == call[t]
       IN Return(t, map_, at(c.seen[c.m], c.k), taken)

Subscript(t) ==
    /\ InBody(t, "subscript")
    /\ LET c == call[t]
           r == subscript(c.seen[c.m], c.k)
       IN Return(t, [map_ EXCEPT ![c.m] = r.map], r.out, taken)

\* CopyConstruct: map_ = other.map_
CopyFrom(t) ==
    /\ InBody(t, "copy_from")
    /\ LET c == call[t]
       IN Return(t, [map_ EXCEPT ![c.m] = c.seen[c.o]], "void", taken)

\* this->key_ = other.key_ ...; this->typ_ = header.typ_ ...;
\* this->crypto_ = other.crypto_->Clone()
EntityCopy(t) ==
    /\ mpc[t] = "locked"
    /\ call[t].op \in EntityOps
    /\ LET c == call[t]
       IN Return(t, [map_ EXCEPT ![c.m] = c.seen[c.o]], "void", taken)

\* MoveConstruct: map_ = std::move(other.map_); what a moved-from
\* unordered_map holds is unspecified.
MoveAssign(t) ==
    /\ InBody(t, "move")
    /\ LET c == call[t]
       IN \E left \in {EmptyMap, c.seen[c.o]} :
            Return(t, [map_ EXCEPT ![c.m] = c.seen[c.o], ![c.o] = left],
                   "void", taken)

Swap(t) ==
    /\ InBody(t, "swap")
    /\ LET c == call[t]
       IN Return(t, [map_ EXCEPT ![c.m] = c.seen[c.o], ![c.o] = c.seen[c.m]],
                 "void", taken)

Merge(t) ==
    /\ InBody(t, "merge")
    /\ LET c == call[t]
           r == merge(c.seen[c.m], c.seen[c.o])
       IN Return(t, [map_ EXCEPT ![c.m] = r.self, ![c.o] = r.other],
                 "void", taken)

MapNext ==
    \E t \in Threads :
        \/ \E c \in Calls(t) : MapBegin(t, c)
        \/ SelfReturn(t)
        \/ LockUnique(t)
        \/ LockShared(t)
        \/ LockThis(t)
        \/ LockOther(t)
        \/ StdLock(t)
        \/ LockSource(t)
        \/ LockDestination(t)
        \/ EntityCopy(t)
        \/ CloneLock(t)
        \/ CloneRelock(t)
        \/ CloneReturn(t)
        \/ MemberWrite(t)
        \/ MemberRead(t)
        \/ Insert(t)
        \/ Store(t)
        \/ Erase(t)
        \/ PairBegin(t)
        \/ At(t)
        \/ Subscript(t)
        \/ CopyFrom(t)
        \/ MoveAssign(t)
        \/ Swap(t)
        \/ Merge(t)

MapSpec == MapInit /\ [][MapNext]_vars

MapTypeOK ==
    /\ scenario \in {"api", "disjoint", "take", "multi"}
                      \cup EntityScenarios \cup MemberScenarios
    /\ \A m \in MapNames : DOMAIN map_[m] \subseteq MapKeys
    /\ \A m \in MapNames :
          mutex_[m].w \in Threads \cup {Null} /\ mutex_[m].r \subseteq Threads
    /\ ncalls \in [Threads -> 0..MaxCalls]

\* The operation of the last call thread t completed
LastOp(t) == IF ret[t] = NoCall THEN "none" ELSE ret[t].call.op

MapIdle == \A t \in Threads : mpc[t] = "idle"

\* C14: when every thread has finished its insert and erase calls on its
\* own key, the map contains exactly the keys whose last call was an
\* insert, and its size is the number of those keys.
C14_DisjointInsertErase ==
    (scenario = "disjoint" /\ MapIdle) =>
        /\ \A t \in Threads :
              contains(map_["a"], t) <=> LastOp(t) = "insert"
        /\ size(map_["a"]) =
              Cardinality({t \in Threads : LastOp(t) = "insert"})

C14_Witness ==
    /\ scenario = "disjoint"
    /\ MapIdle
    /\ \A t \in Threads : ncalls[t] = MaxCalls
    /\ LastOp(1) = "insert"
    /\ LastOp(2) = "erase"
    /\ DOMAIN map_["a"] = {t \in Threads : LastOp(t) = "insert"}

\* The single-threaded client has just completed a call of op: ret[1]
\* holds the call, what it returned and the maps before it, map_ the maps
\* after it.
Completed(op) == scenario = "api" /\ LastOp(1) = op

Pre == ret[1].pre[ret[1].call.m]

Post == map_[ret[1].call.m]

\* C15: insert(k, v) on a map that contains k returns false and leaves
\* the map as it was; on a map without k it returns true and at(k) is v
\* afterwards.
C15_InsertNeverOverwrites ==
    Completed("insert") =>
        LET k == ret[1].call.k
            v == ret[1].call.v
        IN IF contains(Pre, k)
           THEN /\ ret[1].out = FALSE
                /\ Post = Pre
                /\ size(Post) = size(Pre)
           ELSE /\ ret[1].out = TRUE
                /\ at(Post, k) = [threw |-> FALSE, out |-> v]

C15_Witness ==
    /\ Completed("insert")
    /\ contains(Pre, ret[1].call.k)
    /\ Pre[ret[1].call.k] # ret[1].call.v
    /\ size(Pre) > 1
    /\ ret[1].out = FALSE
    /\ Post = Pre

\* C16: after store(k, v), at(k) is v whether or not k was present, and
\* every other key is present or absent as before with the value it had.
C16_StoreAlwaysOverwrites ==
    Completed("store") =>
        LET k == ret[1].call.k
            v == ret[1].call.v
        IN /\ at(Post, k) = [threw |-> FALSE, out |-> v]
           /\ \A x \in MapKeys \ {k} :
                /\ contains(Post, x) <=> contains(Pre, x)
                /\ contains(Pre, x) => Post[x] = Pre[x]

C16_Witness ==
    /\ Completed("store")
    /\ contains(Pre, ret[1].call.k)
    /\ Pre[ret[1].call.k] # ret[1].call.v
    /\ size(Pre) > 1
    /\ Post[ret[1].call.k] = ret[1].call.v

\* C17: m[k] for an absent key k returns the default value, and afterwards
\* contains(k) is still false and the size is what it was.
C17_SubscriptNeverMutates ==
    (Completed("subscript") /\ ~contains(Pre, ret[1].call.k)) =>
        /\ ret[1].out = DefaultValue
        /\ ~contains(Post, ret[1].call.k)
        /\ size(Post) = size(Pre)

\* C18: at(k) for an absent key throws and leaves the map as it was;
\* erase(k) returns normally, leaves a map without k as it was, and a
\* second erase(k) changes nothing more.
C18_OnlyAtFails ==
    /\ (Completed("at") /\ ~contains(Pre, ret[1].call.k)) =>
          ret[1].out.threw /\ Post = Pre
    /\ (Completed("at") /\ contains(Pre, ret[1].call.k)) =>
          ret[1].out = [threw |-> FALSE, out |-> Pre[ret[1].call.k]]
    /\ Completed("erase") =>
          /\ ret[1].out = "void"
          /\ ~contains(Pre, ret[1].call.k) => Post = Pre
          /\ erase(Post, ret[1].call.k) = Post
          /\ Post = erase(Pre, ret[1].call.k)

C18_Witness ==
    /\ Completed("at")
    /\ ~contains(Pre, ret[1].call.k)
    /\ ~empty(Pre)
    /\ ret[1].out.threw
    /\ Post = Pre

\* C19: pair_begin on a non-empty map returns one of its entries and
\* removes exactly that entry; on an empty map it returns the zero-valued
\* pair and the map stays empty; concurrent pair_begin calls on one map
\* never return the same entry twice.
C19_PairBeginAtomicTake ==
    /\ Completed("pair_begin") =>
          IF empty(Pre)
          THEN ret[1].out = <<Null, DefaultValue>> /\ empty(Post)
          ELSE /\ contains(Pre, ret[1].out[1])
               /\ ret[1].out[2] = Pre[ret[1].out[1]]
               /\ size(Post) = size(Pre) - 1
               /\ ~contains(Post, ret[1].out[1])
               /\ Post = erase(Pre, ret[1].out[1])
    /\ scenario = "take" => \A k \in MapKeys : taken[k] <= 1

C19_Witness ==
    /\ scenario = "take"
    /\ MapIdle
    /\ \A k \in MapKeys : taken[k] = 1
    /\ \A t \in Threads : ncalls[t] > 0
    /\ empty(map_["a"])

\* The locks thread t has to be granted to take its next step
Wants(t) ==
    LET c == call[t]
    IN CASE mpc[t] = "start" /\ c.op \in UniqueOps -> {<<c.m, "unique">>}
         [] mpc[t] = "start" /\ c.op \in SharedOps -> {<<c.m, "shared">>}
         [] mpc[t] = "start" /\ c.op \in OrderedOps /\ c.m # c.o ->
              {<<c.m, "unique">>}
         [] mpc[t] = "start" /\ c.op \in StdLockOps /\ c.m # c.o ->
              {<<c.m, "unique">>, <<c.o, "unique">>}
         [] mpc[t] = "locked_this" ->
              {<<c.o, IF c.op = "copy_from" THEN "shared" ELSE "unique">>}
         [] mpc[t] = "start" /\ c.op \in EntityOps /\ c.m # c.o ->
              {<<c.o, "shared">>}
         [] mpc[t] = "locked_other" -> {<<c.m, "unique">>}
         [] mpc[t] = "start" /\ c.op = "Clone" -> {<<c.m, "shared">>}
         [] mpc[t] = "clone_locked" -> {<<c.m, "shared">>}
         [] OTHER -> {}

\* The threads that hold mutex_[m]
Holders(m) == (mutex_[m].r \cup {mutex_[m].w}) \ {Null}

\* Every thread of S waits for a lock that a thread of S holds.
Deadlock(S) ==
    /\ S # {}
    /\ \A t \in S :
          \E w \in Wants(t) :
              ~CanLock(w[1], w[2]) /\ Holders(w[1]) \cap S # {}

\* C20: no set of threads running copy_from, move assignment, merge and
\* swap between two maps ever waits for itself, and an operation of a map
\* with itself returns leaving every map and every lock as it was.
C20_MultiContainerNeverDeadlocks ==
    /\ scenario \notin EntityScenarios =>
          \A S \in SUBSET Threads : ~Deadlock(S)
    /\ (scenario = "api" /\ LastOp(1) \in OrderedOps \cup StdLockOps
          /\ ret[1].call.m = ret[1].call.o /\ mpc[1] = "idle") =>
          map_ = ret[1].pre /\ \A m \in MapNames : mutex_[m] = FreeMutex

\* C21: after a.merge(b) every key that was in a has the value it had in
\* a, and every key that was only in b is in a with the value it had in b.
C21_MergeInsertSemantics ==
    (Completed("merge") /\ ret[1].call.m # ret[1].call.o) =>
        LET a == ret[1].pre[ret[1].call.m]
            b == ret[1].pre[ret[1].call.o]
        IN /\ \A k \in DOMAIN a : contains(Post, k) /\ Post[k] = a[k]
           /\ \A k \in DOMAIN b \ DOMAIN a :
                 contains(Post, k) /\ Post[k] = b[k]

C21_Witness ==
    /\ Completed("merge")
    /\ ret[1].call.m # ret[1].call.o
    /\ LET a == ret[1].pre[ret[1].call.m]
           b == ret[1].pre[ret[1].call.o]
       IN /\ \E k \in DOMAIN a \cap DOMAIN b : a[k] # b[k] /\ Post[k] = a[k]
          /\ \E k \in DOMAIN b \ DOMAIN a : Post[k] = b[k]

----------------------------------------------------------------------------
\* t is at or before the instant e
NotAfter(t, e) ==
    t.seconds < e.seconds \/ (t.seconds = e.seconds /\ t.nanos <= e.nanos)

\* C22: IsExpired returns false when no expiration is set, whatever the
\* clock reads; with the expiration instant e set it returns false when
\* the clock reads e or less and true when it reads more.
C22_ExpiredStrictlyAfter ==
    last.op = "IsExpired" =>
        LET e == last.pre.payload.exp
        IN IF ~has_value(e) THEN last.ret = FALSE
           ELSE last.ret = ~NotAfter(last.now, value(e))

\* C22 witness: the clock reads exactly the expiration instant.
C22_Witness ==
    /\ last.op = "IsExpired"
    /\ has_value(last.pre.payload.exp)
    /\ last.now = value(last.pre.payload.exp)
    /\ last.ret = FALSE

\* C23: Encode on an instance whose header, payload or algorithm is unset
\* throws std::invalid_argument and produces no token.
C23_EncodeUnsetInvalidArgument ==
    (last.op = "Encode" /\ Unset(last.pre)) =>
        last.error = "invalid_argument" /\ ~last.ret /\ token = NoToken

\* C24: Decode and IsTokenValid return, and return false, for a token
\* that is empty, that does not parse, or that was signed under a key
\* other than the instance's; IsTokenValid leaves the header and the
\* payload of the instance as they were.
C24_DecodeNeverRaises ==
    (phase = "done" /\ last.op \in {"Decode", "IsTokenValid"}) =>
        /\ last.ret \in BOOLEAN
        /\ token.msg \in Malformed => last.ret = FALSE
        /\ (~last.tampered /\ last.pre.crypto.key # inst["enc"].crypto.key)
              => last.ret = FALSE
        /\ last.op = "IsTokenValid" =>
              /\ inst["dec"].header = last.pre.header
              /\ inst["dec"].payload = last.pre.payload

\* C25: a CopyAlgorithm step of the decoder from the encoder leaves the
\* decoder with the key, IV and salt of the encoder and with the header
\* and payload it had, and it leaves the encoder as it was; a step that changes the encoder's
\* algorithm afterwards leaves the decoder's as it was; and CopyAlgorithm
\* of an instance from itself leaves the instance as it was.
C25_CopyAlgorithmOnlyAlgorithm ==
    /\ [][CopyAlgorithm("dec", "enc") =>
            /\ inst'["dec"].crypto.key = inst["enc"].crypto.key
            /\ inst'["dec"].crypto.iv = inst["enc"].crypto.iv
            /\ inst'["dec"].crypto.salt = inst["enc"].crypto.salt
            /\ inst'["dec"].header = inst["dec"].header
            /\ inst'["dec"].payload = inst["dec"].payload
            /\ inst'["enc"] = inst["enc"]]_vars
    /\ [][inst'["enc"].crypto # inst["enc"].crypto =>
            inst'["dec"] = inst["dec"]]_vars
    /\ [](phase = "setup" =>
            \A i \in Ids : ~Unset(inst[i]) =>
                PWTInstance_CopyAlgorithm(i, i) = inst[i])

\* C25 witness: the decoder was configured and then took the algorithm of
\* the encoder, which was moved from afterwards.
C25_Witness ==
    /\ phase = "setup"
    /\ Unset(inst["enc"])
    /\ inst["dec"].crypto = Algorithm(Key1, "iv1", "salt1")
    /\ inst["dec"].header # PWTHeader

\* C26: a step that makes the decoder a clone of the encoder leaves it
\* with the encoder's header fields, custom-field maps, payload claims
\* except the nonce, and key material, and leaves the encoder as it was;
\* no step changes both instances, so a later setter call on one leaves
\* the other as it was.
C26_CloneIndependentDeepCopy ==
    /\ [][(\E pbi \in ClonePbis : CloneEnc(pbi)) =>
            /\ inst'["dec"].header = inst["enc"].header
            /\ inst'["dec"].header.custom_fields
                  = inst["enc"].header.custom_fields
            /\ [inst'["dec"].payload EXCEPT !.pbi = ""]
                  = [inst["enc"].payload EXCEPT !.pbi = ""]
            /\ inst'["dec"].crypto = inst["enc"].crypto
            /\ inst'["enc"] = inst["enc"]]_vars
    /\ [][~(inst'["enc"] # inst["enc"] /\ inst'["dec"] # inst["dec"])]_vars

\* C26 witness: an encoder with an expiry was cloned, nonce regenerated,
\* and a setter then changed the encoder's header only.
C26_Witness ==
    /\ phase = "setup"
    /\ inst["dec"].payload.pbi = "pbi3"
    /\ inst["dec"].payload.exp # nullopt
    /\ inst["dec"].payload = [inst["enc"].payload EXCEPT !.pbi = "pbi3"]
    /\ inst["dec"].crypto = inst["enc"].crypto
    /\ inst["enc"].header # inst["dec"].header
    /\ inst["dec"].header = PWTHeader

\* The (key, value) pairs a part of the token carries, as a map
Carried(part, Default) ==
    LET ist == ParseFromString(part, DefaultInstanceMessage)
        custom == ParseFromString(ist.msg.head, Default).msg.custom
    IN [k \in {f[1] : f \in custom} |->
            (CHOOSE f \in custom : f[1] = k)[2]]

\* C27: after a successful Decode the custom-field maps of the header and
\* of the payload are exactly the pairs the token carries: a key the
\* instance had and the token lacks is gone, and a key of both has the
\* token's value.
C27_DecodeReplacesCustomFields ==
    (Decoded /\ last.ret = TRUE) =>
        /\ inst["dec"].header.custom_fields
              = Carried(token.msg[1].header, DefaultHeaderMessage)
        /\ inst["dec"].payload.custom_fields
              = Carried(token.msg[1].payload, DefaultPayloadMessage)

\* C28: after a successful Decode the audience is the list of the token's
\* repeated-audience entries, in their order, when there is one, and the
\* token's scalar audience otherwise; so the list <<"a", "b">> of the
\* encoder decodes to <<"a", "b">> and a scalar decodes to that scalar.
C28_AudienceRule ==
    (Decoded /\ last.ret = TRUE) =>
        LET ist == ParseFromString(token.msg[1].payload,
                                   DefaultInstanceMessage)
            pm == ParseFromString(ist.msg.head, DefaultPayloadMessage).msg
            enc_aud == inst["enc"].payload.aud
        IN /\ inst["dec"].payload.aud
                = IF pm.aud_vec # <<>> THEN [vec |-> pm.aud_vec]
                  ELSE [str |-> pm.aud]
           /\ (enc_aud = [vec |-> <<"a", "b">>]) =>
                  inst["dec"].payload.aud = [vec |-> <<"a", "b">>]
           /\ ("str" \in DOMAIN enc_aud) =>
                  inst["dec"].payload.aud = enc_aud

\* C28 witness: a decoder with a scalar audience decoded a token with the
\* audience list <<"a", "b">>.
C28_Witness ==
    /\ Decoded
    /\ last.ret = TRUE
    /\ last.pre.payload.aud = [str |-> ""]
    /\ inst["enc"].payload.aud = [vec |-> <<"a", "b">>]
    /\ inst["dec"].payload.aud = [vec |-> <<"a", "b">>]

\* C29: a Get starts to wait on the condition variable only when
\* current_size = max_size and nothing is available; while
\* current_size < max_size no Get blocks.
C29_GetBlocksOnlyAtCapacity ==
    [][\A t \in Threads :
          (pc[t] = "get_block" /\ pc'[t] = "get_waiting") =>
              /\ current_size = max_size
              /\ empty(available)]_vars

\* C30: concurrent a.CopyAlgorithm(b) and b.CopyAlgorithm(a) on two
\* instances, and concurrent a = b and b = a on two algorithms or two
\* headers, never leave a set of threads waiting for itself.
C30_CrossEntityNeverDeadlocks ==
    scenario \in EntityScenarios =>
        \A S \in SUBSET Threads : ~Deadlock(S)

\* C37: a timestamp that is unset on the encoder when it encodes is unset
\* on the decoder after a successful Decode of the token, and a decoder
\* whose expiration is unset in this way is not expired.
C37_AbsentTimestampSurvives ==
    (Decoded /\ last.ret = TRUE) =>
        /\ \A f \in {"exp", "nbf", "iat"} :
              ~has_value(inst["enc"].payload[f]) =>
                  ~has_value(inst["dec"].payload[f])
        /\ ~has_value(inst["enc"].payload.exp) =>
              ~PWTPayloadBase_IsExpired(inst["dec"].payload, Now)

\* C33: the payload that the convenience constructor builds with
\* exp < iat or nbf > exp has expiration, not-before and issued-at unset
\* and is not expired at any time; with exp >= iat and nbf <= exp it has
\* all three set.
C33_ConstructorClearsTimestamps ==
    [][\A aud \in CtorAudiences, exp \in CtorTimes, nbf \in CtorTimes,
          iat \in CtorTimes :
          NewPWTPayload(aud, exp, nbf, iat) =>
              LET p == inst'["enc"].payload
              IN IF exp < iat \/ nbf > exp
                 THEN /\ \A f \in {"exp", "nbf", "iat"} : ~has_value(p[f])
                      /\ \A now \in ClockReadings :
                            ~PWTPayloadBase_IsExpired(p, now)
                 ELSE \A f \in {"exp", "nbf", "iat"} : has_value(p[f])]_vars

\* C33 witness: IsExpired was called, after the least expiry the
\* constructor can set, on a payload whose timestamps it had cleared.
C33_Witness ==
    /\ phase = "done"
    /\ last.op = "IsExpired"
    /\ last.ret = FALSE
    /\ ~has_value(inst["enc"].payload.exp)
    /\ ~has_value(inst["enc"].payload.nbf)
    /\ TimestampLess(GetTimestamp(0), last.now)

\* C34: AddAudience of the list auds leaves the list <<s>> \o auds when
\* the audience was the scalar s, and the list A \o auds when it was the
\* list A.
C34_AddAudienceListAppends ==
    [][\A auds \in {<<>>, <<"c", "d">>} :
          AddAudience_vector("enc", auds) =>
              LET aud_ == inst["enc"].payload.aud
              IN inst'["enc"].payload.aud
                    = IF "str" \in DOMAIN aud_
                      THEN [vec |-> <<aud_.str>> \o auds]
                      ELSE [vec |-> aud_.vec \o auds]]_vars

\* C40: AddHeaderCustomField and AddPayloadCustomField of (key, val) leave
\* the map as it was when it holds key, add (key, val) to it when it does
\* not, and change nothing else of the instance.
C40_AddCustomFieldInserts ==
    [][\A key \in {"k1", "k2"}, val \in {"v1", "v2"} :
          /\ AddHeaderCustomField("enc", key, val) =>
                LET old == inst["enc"].header.custom_fields
                IN /\ inst'["enc"].header.custom_fields
                        = [k \in DOMAIN old \cup {key} |->
                             IF k \in DOMAIN old THEN old[k] ELSE val]
                   /\ [inst'["enc"] EXCEPT !.header.custom_fields = old]
                        = inst["enc"]
          /\ AddPayloadCustomField("enc", key, val) =>
                LET old == inst["enc"].payload.custom_fields
                IN /\ inst'["enc"].payload.custom_fields
                        = [k \in DOMAIN old \cup {key} |->
                             IF k \in DOMAIN old THEN old[k] ELSE val]
                   /\ [inst'["enc"] EXCEPT !.payload.custom_fields = old]
                        = inst["enc"]]_vars

\* C40 witness: two calls, both AddHeaderCustomField, have left one key:
\* the second call named the key of the first.
C40_Witness ==
    /\ nsets = 2
    /\ MaxSets = 2
    /\ "str" \in DOMAIN inst["enc"].payload.aud
    /\ inst["enc"].payload.custom_fields = EmptyMap
    /\ Cardinality(DOMAIN inst["enc"].header.custom_fields) = 1

\* C36: a Decode that returns false leaves every field of the header and
\* of the payload of the instance as it was before the call.
C36_FailedDecodeChangesNothing ==
    (phase = "done" /\ last.op = "Decode" /\ last.ret = FALSE
        /\ ~Unset(inst["enc"]))
        => /\ inst["enc"].header = last.pre.header
           /\ inst["enc"].payload = last.pre.payload

\* C32: of two calls that run together on one header or payload and use
\* the same member, one of them writing it, never both are inside their
\* locked bodies at once.
C32_FieldsUnderCommonLock ==
    scenario \in {"payload_fields", "header_fields"} =>
        \A t \in Threads : ~(mpc[t] = "locked" /\ Racing(t))

\* C39: no call asks for a lock that its own thread holds, and no Clone
\* that runs together with SetKey stays blocked for ever.
C39_NoLockRequestedTwice ==
    /\ \A t \in Threads : \A w \in Wants(t) : t \notin Holders(w[1])
    /\ \A t \in Threads : mpc[t] # "blocked"

(* C35: after PWTPool::CopyAlgorithm(x) was called while every instance of  *)
(* the pool was available, every instance a later Get returns, an instance  *)
(* that Get created from the template included, carries x's key material.   *)
C35_LaterGetsCarryCopiedKey ==
    (has_value(copied) /\ Len(copied) = 2) =>
        \A t \in Threads : \A i \in held[t] : alg[i] = value(copied)

(* C31: PWTPool::CopyAlgorithm excludes Get and Put: while it holds the     *)
(* pool's lock, from its acquisition at the entry to the return, no Get and *)
(* no Put is inside its body, no instance enters or leaves the available    *)
(* set, and a Get or Put that is called meanwhile does not start before the *)
(* copy is complete.                                                        *)
C31_CopyAlgorithmExcludesGetPut ==
    /\ [](pc[Copier] = "copy_range" => AllIdle)
    /\ [][pc[Copier] = "copy_range" =>
            /\ UNCHANGED <<available, used>>
            /\ \A t \in Threads : pc'[t] = "idle"
        ]_vars

(* C31 witness: CopyAlgorithm holds the lock while one instance is          *)
(* available and a thread that holds another one, and could call Put, is    *)
(* kept out.                                                                *)
C31_Witness ==
    /\ pc[Copier] = "copy_range"
    /\ ~empty(available)
    /\ \E t \in Threads : \E x \in held[t] : ~ENABLED PutStart(t, x)

(* C38: when CopyAlgorithm is called while a Get is blocked on a saturated  *)
(* pool, a Put by a third thread is let in, so that the blocked Get can     *)
(* return and CopyAlgorithm after it.                                       *)
C38_PutPassesWaitingCopyAlgorithm ==
    (/\ pc[Copier] \in CopyWaits
     /\ current_size = max_size /\ empty(available)
     /\ \E t \in Threads : pc[t] = "get_waiting"
     /\ \E u \in Threads : pc[u] = "idle" /\ held[u] # {})
        => \E u \in Threads : \E x \in held[u] : ENABLED PutStart(u, x)

====
